---- MODULE Spec2Model ----
(***************************************************************************)
(* A state-machine model of the vlife simulator (chris-zen/vlife):         *)
(* Simulator (vlife-simulator/src/simulator.rs), Cell (cell.rs), CellRank  *)
(* (cell_rank.rs) and the object physics the simulator drives              *)
(* (vlife-physics/src/physics.rs).                                         *)
(*                                                                         *)
(* Reals (f64) are fixed-point integers in units of 1/SCALE; a product or  *)
(* quotient is truncated toward zero to that resolution.  The neural       *)
(* network of a cell is not evaluated: its output layer is Tanh, so each   *)
(* update draws the outputs from a small set of vectors in [-1, 1].        *)
(* movement_direction, movement_velocity, age and last_energy feed only    *)
(* the neural inputs and the physics velocity and are left out.            *)
(***************************************************************************)
EXTENDS Integers, Sequences, FiniteSets, TLC

(***************************************************************************)
(* Bounds of the model.                                                    *)
(***************************************************************************)
MaxUpdates == 2
MaxAdded == 1
MaxCells == 2
MaxAge == 400
MaxArena == 3
MaxMinCells == 1
MaxContacts == 2

(***************************************************************************)
(* Fixed-point arithmetic.                                                 *)
(***************************************************************************)
SCALE == 60 * 100

Min(a, b) == IF a <= b THEN a ELSE b

Max(a, b) == IF a >= b THEN a ELSE b

Abs(a) == IF a >= 0 THEN a ELSE -a

Clamp(x, lo, hi) == Min(Max(x, lo), hi)

\* |a| * |b| / SCALE for a, b >= 0, exact floor, without a wide intermediate.
MulNN(a, b) ==
    LET qa == a \div SCALE
        ra == a % SCALE
        qb == b \div SCALE
        rb == b % SCALE
    IN  qa * qb * SCALE + qa * rb + qb * ra + (ra * rb) \div SCALE

\* a * b of two fixed-point numbers.
Mul(a, b) ==
    (IF (a >= 0) = (b >= 0) THEN 1 ELSE -1) * MulNN(Abs(a), Abs(b))

\* a / b for a >= 0, b > 0: long division in two digits (60 and 100).
DivNN(a, b) ==
    LET q0 == a \div b
        r0 == a % b
        q1 == (r0 * 60) \div b
        r1 == (r0 * 60) % b
        q2 == (r1 * 100) \div b
    IN  q0 * SCALE + q1 * 100 + q2

\* a / b of two fixed-point numbers, b # 0.
Div(a, b) ==
    (IF (a >= 0) = (b >= 0) THEN 1 ELSE -1) * DivNN(Abs(a), Abs(b))

\* x * (num / den) for a rational program constant num / den.
MulRat(x, num, den) ==
    IF x >= 0 THEN (x * num) \div den ELSE -(((-x) * num) \div den)

RECURSIVE SumSeq(_)
SumSeq(s) == IF s = <<>> THEN 0 ELSE Head(s) + SumSeq(Tail(s))

\* Scalar::PI().
PI == 18850

(***************************************************************************)
(* Program constants (cell.rs, simulator.rs), in units of 1/SCALE.         *)
(***************************************************************************)
NUM_MOLECULES == 8
MAX_ENERGY == 1000 * SCALE
ALIVE_ENERGY_THRESHOLD == SCALE \div 10
MAX_ZERO_ENERGY_TIME == 60 * SCALE
MAX_DIVISION_THRESHOLD_FACTOR == 10 * SCALE
MAX_MOLECULE_AMOUNT == 100 * SCALE
MAX_MOLECULE_ENERGY_CONVERSION == SCALE
MAX_CONTRACTION == (8 * SCALE) \div 10
MAX_CONTACT_ENERGY_ABSORPTION == (8 * SCALE) \div 10
MAX_SIZE == 6 * SCALE
MAX_SPEED == 40 * SCALE
\* NEURON_COST = 0.0000005 = 1 / NEURON_COST_INV
NEURON_COST_INV == 2000000
\* MOVEMENT_COST = CONTRACTION_COST = 0.0001, DIVISION_COST = 0.001
MOVEMENT_COST_INV == 10000
CONTRACTION_COST_INV == 10000
DIVISION_COST_INV == 1000
RANK_SIZE == 100
\* DEFAULT_DELTA = 1.0 / 60.0, the step the application passes to update().
DEFAULT_DELTA == SCALE \div 60

VARIABLES
    cells,          \* Simulator.cells: IndexMap<CellId, Cell>, in index order
    next_cell_id,   \* Simulator.next_cell_id
    time,           \* Simulator.time
    dead_cells,     \* Simulator.dead_cells
    born_cells,     \* Simulator.born_cells
    object_cell,    \* Simulator.object_cell: HashMap<ObjectId, CellId>
    min_cells,      \* Simulator.min_cells
    rank,           \* Simulator.rank: CellRank.cells, BTreeMap<score, Cell>
    objects,        \* Physics.objects: IndexMap<ObjectId, Object>, in index order
    phys_next_id,   \* Physics.next_id
    phys_time,      \* Physics.time
    panicked,       \* "no", or the panic that unwound the last call
    calls,          \* history: number of update() and add_random_cell() calls made
    tick,           \* history: what the last update() did
    closer,         \* the arena and query of get_cell_id_closer_to and its result
    builders,       \* the GenomeBuilders alive, the root first, and what they did
    crossing,       \* two Genomes and what Genome::cross made of them
    ranking,        \* a CellRank on its own: its capacity and what was asked of it
    object_set,     \* an ObjectSet<T> and the last get_pair_mut on it
    lone,           \* a Cell on its own, update after update
    neurons,        \* a Neurons with its three layers and a cell's basal cost
    engine,         \* a Physics engine (physics/engine.rs) and its last update
    collision       \* two PolygonColliders, their particles and what resolving did

vars == <<cells, next_cell_id, time, dead_cells, born_cells, object_cell, min_cells,
          rank, objects, phys_next_id, phys_time, panicked, calls, tick, closer,
          builders, crossing, ranking, object_set, lone, neurons, engine, collision>>

\* The parts examined on their own.
partVars == <<builders, crossing, ranking, object_set>>

unitVars == <<lone, neurons, engine, collision>>

simVars == <<cells, next_cell_id, time, dead_cells, born_cells, object_cell, min_cells,
             rank, objects, phys_next_id, phys_time, panicked, calls, tick>>

None == [some |-> FALSE]

Some(v) == [some |-> TRUE, value |-> v]

(***************************************************************************)
(* Cell (cell.rs).                                                         *)
(***************************************************************************)
CellStatsDefault ==
    [energy_consumed |-> 0, energy_produced |-> 0,
     energy_absorbed_out |-> 0, energy_absorbed_in |-> 0]

\* What the thread-local rng draws in Cell::random and Neurons::random: each
\* field lies in the range its gen_range has in the source.  zero_energy_limit
\* and contact_energy_absorption_limit are drawn positive: at exactly 0.0 the
\* neural inputs time / limit and amount / limit are 0/0.
RandomDraws ==
    { [size |-> SCALE, zero_energy_limit |-> DEFAULT_DELTA,
       threshold_factor |-> SCALE,
       molecule |-> 0, conversion |-> 0, movement_speed_limit |-> 0,
       contraction_limit |-> 0,
       contact_energy_absorption_limit |-> MAX_CONTACT_ENERGY_ABSORPTION,
       working_neurons |-> 39],
      [size |-> 2 * SCALE, zero_energy_limit |-> MAX_ZERO_ENERGY_TIME,
       threshold_factor |-> MAX_DIVISION_THRESHOLD_FACTOR,
       molecule |-> SCALE, conversion |-> SCALE \div 2,
       movement_speed_limit |-> MAX_SPEED,
       contraction_limit |-> MAX_CONTRACTION,
       contact_energy_absorption_limit |-> SCALE \div 4,
       working_neurons |-> 0] }

\* V<NUM_MOLECULES>: the vector with the components of f, computed once.
V(f) == SubSeq(f, 1, NUM_MOLECULES)

\* The elements of f, computed once.
Collect(f) == SubSeq(f, 1, Len(f))

Uniform(v) == V([i \in 1..NUM_MOLECULES |-> v])

Zeros2 == <<0, 0>>

Add2(u, v) == <<u[1] + v[1], u[2] + v[2]>>

\* Cell::random(object_id, size), with the rng's draws d.
CellRandom(object_id, size, d) ==
    LET area == Mul(PI, Mul(size, size))
    IN  [object_id |-> object_id,
         working_neurons |-> d.working_neurons,
         size |-> size,
         area |-> area,
         energy |-> MAX_ENERGY,
         stored_energy |-> 0,
         zero_energy_limit |-> d.zero_energy_limit,
         zero_energy_time |-> 0,
         division_energy_reserve |-> 0,
         division_threshold |-> Mul(area, d.threshold_factor),
         division_grow_factor |-> SCALE,
         molecules |-> Uniform(d.molecule),
         molecules_energy_conversion |-> Uniform(d.conversion),
         movement_speed_limit |-> d.movement_speed_limit,
         movement_speed |-> 0,
         contraction_limit |-> d.contraction_limit,
         contraction_amount |-> 0,
         contact_energy_absorption_limit |-> d.contact_energy_absorption_limit,
         contact_energy_absorption_amount |-> 0,
         contact_count |-> 0,
         contact_normal |-> Zeros2,
         stats |-> CellStatsDefault]

\* Cell::child_from(object_id, cell, energy, molecules).
child_from(object_id, cell, energy, molecules) ==
    [object_id |-> object_id,
     working_neurons |-> cell.working_neurons,
     size |-> cell.size,
     area |-> cell.area,
     energy |-> energy,
     stored_energy |-> 0,
     zero_energy_limit |-> cell.zero_energy_limit,
     zero_energy_time |-> 0,
     division_energy_reserve |-> 0,
     division_threshold |-> cell.division_threshold,
     division_grow_factor |-> Div(SCALE, cell.size),
     molecules |-> molecules,
     molecules_energy_conversion |-> cell.molecules_energy_conversion,
     movement_speed_limit |-> cell.movement_speed_limit,
     movement_speed |-> cell.movement_speed,
     contraction_limit |-> cell.contraction_limit,
     contraction_amount |-> 0,
     contact_energy_absorption_limit |-> cell.contact_energy_absorption_limit,
     contact_energy_absorption_amount |-> 0,
     contact_count |-> 0,
     contact_normal |-> Zeros2,
     stats |-> CellStatsDefault]

\* Cell::basal_energy: num_working_neurons * NEURON_COST.
basal_energy(c) == (c.working_neurons * SCALE) \div NEURON_COST_INV

\* Cell::contracted_size.
contracted_size(c) ==
    Max(Mul(Mul(c.size, SCALE - c.contraction_amount), c.division_grow_factor), SCALE)

\* Cell::division_cost.
division_cost(c) == MulRat(c.area, 1, DIVISION_COST_INV)

\* C3's mutant: division does not wait for the reserve.
should_divide_at_once(c) ==
    /\ c.energy >= division_cost(c)
    /\ c.division_grow_factor >= SCALE

\* Cell::should_divide.
should_divide(c) ==
    /\ c.energy >= division_cost(c)
    /\ c.division_energy_reserve >= c.division_threshold
    /\ c.division_grow_factor >= SCALE

\* Cell::is_dead.
is_dead(c) ==
    \/ c.energy + c.stored_energy <= ALIVE_ENERGY_THRESHOLD
    \/ c.zero_energy_time >= c.zero_energy_limit

\* 1.5 / (1 + exp(-5 a)) - 0.5 at a = 0.0, 0.1, ..., 0.8, in units of 1/SCALE.
PermeabilityTable == <<1500, 2602, 3580, 4358, 4927, 5317, 5573, 5736, 5838>>

\* Cell::energy_permeability: the table, interpolated linearly between its knots.
energy_permeability(c) ==
    LET a == Clamp(c.contact_energy_absorption_amount, 0, MAX_CONTACT_ENERGY_ABSORPTION)
        step == SCALE \div 10
        k == a \div step
        lo == PermeabilityTable[k + 1]
        hi == PermeabilityTable[Min(k + 2, Len(PermeabilityTable))]
    IN  lo + ((hi - lo) * (a % step)) \div step

\* Cell::energy_diffusion.
energy_diffusion(c) == Mul(c.energy, energy_permeability(c))

\* C8's mutant: a cell absorbs in proportion to its own energy.
energy_absorption_from_self(c, other, dt) ==
    Mul(Mul(c.contact_energy_absorption_amount, energy_diffusion(c)), dt)

\* Cell::energy_absorption_from(other, dt).
energy_absorption_from(c, other, dt) ==
    Mul(Mul(c.contact_energy_absorption_amount, energy_diffusion(other)), dt)

\* Cell::on_surface_contact(normal).
on_surface_contact(c, normal) ==
    [c EXCEPT !.contact_count = @ + 1, !.contact_normal = Add2(@, normal)]

\* C6's mutant: a contact takes what it should give.
on_cell_contact_reversed(c, energy_delta, normal) ==
    [c EXCEPT !.energy = @ - energy_delta,
              !.contact_count = @ + 1,
              !.contact_normal = Add2(@, normal)]

\* Cell::on_cell_contact(energy_delta, normal).
on_cell_contact(c, energy_delta, normal) ==
    [c EXCEPT
        !.energy = @ + energy_delta,
        !.stats.energy_absorbed_in = IF energy_delta > 0 THEN @ + energy_delta ELSE @,
        !.stats.energy_absorbed_out = IF energy_delta < 0 THEN @ - energy_delta ELSE @,
        !.contact_count = @ + 1,
        !.contact_normal = Add2(@, normal)]

(***************************************************************************)
(* Neural outputs (neurons.rs, define_outputs): the output layer is Tanh.  *)
(***************************************************************************)
NeuralOutputs ==
    { [energy_metabolism |-> Uniform(SCALE), division_energy_reserve |-> SCALE,
       contraction_amount |-> SCALE, movement_kinetic_speed |-> SCALE,
       contact_energy_absorption |-> SCALE],
      [energy_metabolism |-> Uniform(-SCALE), division_energy_reserve |-> -SCALE,
       contraction_amount |-> -SCALE, movement_kinetic_speed |-> -SCALE,
       contact_energy_absorption |-> -SCALE],
      [energy_metabolism |-> Uniform(0), division_energy_reserve |-> SCALE \div 2,
       contraction_amount |-> SCALE \div 2, movement_kinetic_speed |-> SCALE \div 100,
       contact_energy_absorption |-> SCALE \div 2] }

(***************************************************************************)
(* Cell::update (cell.rs 273-295) and its steps.  mass is object.mass().   *)
(***************************************************************************)
\* The basal cost: lines 280-282.
pay_basal_energy(c) ==
    LET basal == Min(basal_energy(c), c.energy)
    IN  [c EXCEPT !.energy = @ - basal, !.stats.energy_consumed = @ + basal]

\* Cell::compute_contraction.
compute_contraction(c, dt, out) ==
    LET contraction_energy ==
            Mul(MulRat(c.contraction_amount, 1, CONTRACTION_COST_INV), dt)
    IN  IF c.energy >= contraction_energy
        THEN [c EXCEPT
                !.energy = @ - contraction_energy,
                !.stats.energy_consumed = @ + contraction_energy,
                !.contraction_amount =
                    Mul(Max(out.contraction_amount, 0), c.contraction_limit)]
        ELSE c

\* Cell::compute_movement (the direction and the velocity vector are left out).
compute_movement(c, dt, out, mass) ==
    LET speed == Mul(Max(out.movement_kinetic_speed, 0), c.movement_speed_limit)
        kinetic_energy == Mul(Mul(mass \div 2, speed), speed)
        movement_energy == Mul(MulRat(kinetic_energy, 1, MOVEMENT_COST_INV), dt)
    IN  IF c.energy >= movement_energy
        THEN [c EXCEPT
                !.energy = @ - movement_energy,
                !.stats.energy_consumed = @ + movement_energy,
                !.movement_speed = speed]
        ELSE [c EXCEPT !.movement_speed = 0]

\* C5's mutant: the absorption amount is not clamped.
compute_contact_energy_absorption_unclamped(c, dt, out) ==
    [c EXCEPT !.contact_energy_absorption_amount =
                @ + Mul(out.contact_energy_absorption, dt)]

\* Cell::compute_contact_energy_absorption.
compute_contact_energy_absorption(c, dt, out) ==
    LET amount == c.contact_energy_absorption_amount
                    + Mul(out.contact_energy_absorption, dt)
    IN  [c EXCEPT !.contact_energy_absorption_amount =
                    Clamp(amount, 0, c.contact_energy_absorption_limit)]

\* The dot product molecules . molecules_energy_conversion.
ComponentMulSum(v, w) == SumSeq([i \in 1..NUM_MOLECULES |-> Mul(v[i], w[i])])

\* Cell::compute_energy_metabolism, read from its end: account is lines
\* 414-426, consume lines 405-412, produce lines 392-404, and the body the
\* two vectors the neural outputs ask for, lines 389-391 and 400-401.
compute_energy_metabolism(c, dt, out) ==
    LET initial_energy == c.energy
        conv == c.molecules_energy_conversion
        account(molecules, energy) ==
            [c EXCEPT
                !.molecules = molecules,
                !.energy = energy,
                !.stats.energy_produced =
                    IF energy > initial_energy THEN @ + (energy - initial_energy) ELSE @,
                !.stats.energy_consumed =
                    IF energy < initial_energy THEN @ + (initial_energy - energy) ELSE @,
                !.stored_energy = ComponentMulSum(molecules, conv)]
        consume(molecules, energy, produced_molecules, consumed_energy) ==
            LET scaled == consumed_energy > energy
                factor == IF scaled THEN Div(energy, consumed_energy) ELSE SCALE
            IN  account(V([i \in 1..NUM_MOLECULES |->
                            molecules[i] + (IF scaled
                                            THEN Mul(produced_molecules[i], factor)
                                            ELSE produced_molecules[i])]),
                        energy - (IF scaled THEN energy ELSE consumed_energy))
        produce(source_molecules, produced_molecules) ==
            consume(V([i \in 1..NUM_MOLECULES |-> c.molecules[i] - source_molecules[i]]),
                    c.energy + ComponentMulSum(source_molecules, conv),
                    produced_molecules,
                    ComponentMulSum(produced_molecules, conv))
    IN  produce(V([i \in 1..NUM_MOLECULES |->
                    Min(Mul(Max(out.energy_metabolism[i], 0), dt), c.molecules[i])]),
                V([i \in 1..NUM_MOLECULES |->
                    Mul(Max(-out.energy_metabolism[i], 0), dt)]))

\* Cell::compute_division.
compute_division(c, dt, out) ==
    LET energy_delta ==
            Min(Min(Max(Mul(out.division_energy_reserve, dt),
                        -c.division_energy_reserve),
                    c.energy),
                c.division_threshold - c.division_energy_reserve)
    IN  [c EXCEPT
            !.division_energy_reserve = @ + energy_delta,
            !.energy = @ - energy_delta,
            !.division_grow_factor = Min(@ + dt, SCALE)]

\* C27's mutant: the accumulator is never reset.
update_zero_energy_time_kept(c, dt) ==
    [c EXCEPT !.zero_energy_time =
                IF c.energy <= ALIVE_ENERGY_THRESHOLD THEN @ + dt ELSE @]

\* The mortality accumulator: lines 290-294.
update_zero_energy_time(c, dt) ==
    [c EXCEPT !.zero_energy_time =
                IF c.energy <= ALIVE_ENERGY_THRESHOLD THEN @ + dt ELSE 0]

\* The cell after each step of Cell::update, in the order of the source:
\* each step takes the cell the step before it left.
UpdateSteps(c, dt, out, mass) ==
    LET step7(s) == Append(s, update_zero_energy_time(s[6], dt))
        step6(s) == step7(Append(s, compute_division(s[5], dt, out)))
        step5(s) == step6(Append(s, compute_energy_metabolism(s[4], dt, out)))
        step4(s) == step5(Append(s, compute_contact_energy_absorption(s[3], dt, out)))
        step3(s) == step4(Append(s, compute_movement(s[2], dt, out, mass)))
        step2(s) == step3(Append(s, compute_contraction(s[1], dt, out)))
    IN  step2(<<pay_basal_energy(c)>>)

\* Cell::update(dt, context).
CellUpdate(c, dt, out, mass) == UpdateSteps(c, dt, out, mass)[7]

\* C4's mutant: the division is free.
divide_parent_free(c) ==
    [c EXCEPT
        !.division_energy_reserve = 0,
        !.molecules = V([i \in 1..NUM_MOLECULES |-> MulRat(c.molecules[i], 1, 2)])]

\* What Cell::divide leaves of the parent: lines 439 and 445-448.
divide_parent(c) ==
    [c EXCEPT
        !.energy = @ - division_cost(c),
        !.division_energy_reserve = 0,
        !.molecules = V([i \in 1..NUM_MOLECULES |-> MulRat(c.molecules[i], 1, 2)])]

\* The cell Cell::divide returns, its object being new_object_id.
divide_child(c, new_object_id) ==
    LET parent == divide_parent(c)
    IN  child_from(new_object_id, parent, c.division_energy_reserve, parent.molecules)

(***************************************************************************)
(* IndexMap<K, V> (cells, objects): a sequence of [id, v] in index order.  *)
(***************************************************************************)
IndexOf(m, id) ==
    IF \E i \in 1..Len(m) : m[i].id = id
    THEN CHOOSE i \in 1..Len(m) : m[i].id = id
    ELSE 0

Keys(m) == {m[i].id : i \in 1..Len(m)}

\* IndexMap::insert: a new key goes last, a known key keeps its place.
MapInsert(m, id, v) ==
    IF IndexOf(m, id) = 0 THEN Append(m, [id |-> id, v |-> v])
    ELSE [m EXCEPT ![IndexOf(m, id)].v = v]

\* IndexMap::remove is swap_remove: the last entry takes the removed place.
MapRemove(m, id) ==
    LET i == IndexOf(m, id)
        n == Len(m)
    IN  IF i = 0 THEN m
        ELSE Collect([j \in 1..(n - 1) |-> IF j = i THEN m[n] ELSE m[j]])

(***************************************************************************)
(* Physics (vlife-physics/src/physics.rs, object.rs).  Positions and       *)
(* velocities are left out: they decide only which contacts are reported.  *)
(***************************************************************************)
\* Object::new(radius, position).
ObjectNew(radius) == [mass |-> Mul(PI, Mul(radius, radius)), radius |-> radius]

\* Physics::add_object.
add_object(objs, next_id, radius) ==
    [objects |-> MapInsert(objs, next_id, ObjectNew(radius)),
     next_id |-> next_id + 1,
     id |-> next_id]

\* C2's mutant: the object of a dead cell stays in the physics engine.
remove_object_never(objs, id) == objs

\* Physics::remove_object.
remove_object(objs, id) == MapRemove(objs, id)

\* Contact::Surface and Contact::Objects.
Surface(id, normal) == [kind |-> "Surface", id |-> id, normal |-> normal]

Objects(id1, id2, normal) ==
    [kind |-> "Objects", id1 |-> id1, id2 |-> id2, normal |-> normal]

\* The contacts one physics update can report for the live objects: a wall
\* contact per object, and a contact per pair of objects, the earlier first
\* (check_collisions pairs index i with the indices after it).
ContactSet(objs) ==
    {Surface(objs[i].id, <<0, -SCALE>>) : i \in 1..Len(objs)}
    \cup {Objects(objs[p[1]].id, objs[p[2]].id, <<SCALE, 0>>) :
            p \in {q \in (1..Len(objs)) \X (1..Len(objs)) : q[1] < q[2]}}

\* Physics::contacts(): up to MaxContacts different contacts, in any order.
ContactLists(objs) ==
    UNION {{l \in [1..n -> ContactSet(objs)] :
                \A i, j \in 1..n : i # j => l[i] # l[j]} : n \in 0..MaxContacts}

(***************************************************************************)
(* Genome and GenomeBuilder (genome.rs).  A gene key is its path, a        *)
(* sequence of names; a genome maps keys to gene values.                   *)
(***************************************************************************)
RowName == <<"000", "001", "002", "003", "004", "005", "006", "007">>

\* The keys Cell's derived build_genome writes for its own fields, in the
\* order of a BTreeMap<String, Gen> (the genes of the nested neurons are
\* written through nested builders in the same way).
GeneKeys ==
    << <<"contact_energy_absorption_limit">>, <<"contraction_limit">>,
       <<"division_threshold">> >>
    \o [i \in 1..NUM_MOLECULES |-> <<"molecules_energy_conversion", RowName[i], "000">>]
    \o << <<"movement_speed_limit">>, <<"size">>, <<"zero_energy_limit">> >>

EmptyGenes == [k \in {} |-> 0]

\* GenomeBuilder::new.
GenomeBuilderNew == [path |-> <<>>, genes |-> EmptyGenes]

\* The derived Clone of GenomeBuilder: RefCell<BTreeMap>::clone copies the
\* map, so the clone is a builder with a map of its own.
GenomeBuilderClone(b) == [path |-> b.path, genes |-> b.genes]

\* GenomeBuilder::nested: the path grows, and the map is cloned as well.
GenomeBuilderNested(b, name) == [path |-> Append(b.path, name), genes |-> b.genes]

\* GenomeBuilder::add: writes into the map of this builder.
GenomeBuilderAdd(b, name, value) ==
    [b EXCEPT !.genes = (Append(b.path, name) :> value) @@ @]

\* GenomeBuilder::build.
GenomeBuilderBuild(b) == b.genes

\* impl BuildGenome for M<R, C>, used for the vector V<R> = M<R, 1>: the map
\* of the builder it was given, when it returns.
vector_build_genome(v, builder) ==
    LET written == [i \in 1..Len(v) |->
                        GenomeBuilderAdd(GenomeBuilderNested(builder, RowName[i]),
                                         "000", v[i])]
    IN  builder

\* The derived Cell::build_genome(builder): the map of the builder it was
\* given, when it returns.  The nested fields write into nested builders.
cell_build_genome(cell, builder) ==
    LET nested == vector_build_genome(cell.molecules_energy_conversion,
                    GenomeBuilderNested(builder, "molecules_energy_conversion"))
        b1 == GenomeBuilderAdd(builder, "size", cell.size)
        b2 == GenomeBuilderAdd(b1, "zero_energy_limit", cell.zero_energy_limit)
        b3 == GenomeBuilderAdd(b2, "division_threshold", cell.division_threshold)
        b4 == GenomeBuilderAdd(b3, "movement_speed_limit", cell.movement_speed_limit)
        b5 == GenomeBuilderAdd(b4, "contraction_limit", cell.contraction_limit)
    IN  GenomeBuilderAdd(b5, "contact_energy_absorption_limit",
                         cell.contact_energy_absorption_limit)

Panic(why) == [panic |-> TRUE, why |-> why]

Returned(v) == [panic |-> FALSE, value |-> v]

\* C16's mutant: the keys before the split come from the other parent.
cross_swapped(g1, g2) ==
    LET union == DOMAIN g1 \cup DOMAIN g2
        keys == SelectSeq(GeneKeys, LAMBDA k : k \in union)
        num_genes == Len(keys)
        gene1(k) == IF k \in DOMAIN g1 THEN g1[k] ELSE g2[k]
        gene2(k) == IF k \in DOMAIN g2 THEN g2[k] ELSE g1[k]
    IN  IF num_genes = 0 THEN {Panic("num_genes - 1: attempt to subtract with overflow")}
        ELSE IF num_genes - 1 <= 1 THEN {Panic("gen_range: empty range")}
        ELSE {Returned([k \in union |->
                            IF \E i \in 1..cross_index : keys[i] = k
                            THEN gene2(k) ELSE gene1(k)]) :
                cross_index \in 1..(num_genes - 2)}

\* Genome::cross: its outcomes, a panic or a genome per split index the rng
\* can draw from 1..num_genes - 1 (the end excluded).
cross(g1, g2) ==
    LET union == DOMAIN g1 \cup DOMAIN g2
        keys == SelectSeq(GeneKeys, LAMBDA k : k \in union)
        num_genes == Len(keys)
        gene1(k) == IF k \in DOMAIN g1 THEN g1[k] ELSE g2[k]
        gene2(k) == IF k \in DOMAIN g2 THEN g2[k] ELSE g1[k]
    IN  IF num_genes = 0 THEN {Panic("num_genes - 1: attempt to subtract with overflow")}
        ELSE IF num_genes - 1 <= 1 THEN {Panic("gen_range: empty range")}
        ELSE {Returned([k \in union |->
                            IF \E i \in 1..cross_index : keys[i] = k
                            THEN gene1(k) ELSE gene2(k)]) :
                cross_index \in 1..(num_genes - 2)}

(***************************************************************************)
(* CellRank (cell_rank.rs): the BTreeMap as a sequence of [score, cell],   *)
(* ascending in score.                                                     *)
(***************************************************************************)
\* C18's mutant: a full rank evicts its highest entry.
rank_insert_pop_last(r, max_size, score, cell) ==
    LET others == SelectSeq(r, LAMBDA e : e.score # score)
        below == SelectSeq(others, LAMBDA e : e.score < score)
        above == SelectSeq(others, LAMBDA e : e.score > score)
        inserted == below \o <<[score |-> score, cell |-> cell]>> \o above
    IN  IF Len(inserted) > max_size THEN SubSeq(inserted, 1, Len(inserted) - 1)
        ELSE inserted

\* CellRank::insert(score, cell), lines 41-44, for a score that is a number.
rank_insert(r, max_size, score, cell) ==
    LET others == SelectSeq(r, LAMBDA e : e.score # score)
        below == SelectSeq(others, LAMBDA e : e.score < score)
        above == SelectSeq(others, LAMBDA e : e.score > score)
        inserted == below \o <<[score |-> score, cell |-> cell]>> \o above
    IN  IF Len(inserted) > max_size THEN Tail(inserted) ELSE inserted

\* CellRank::choose_random_genome: the genomes it can return.
choose_random_genome(r) ==
    IF Len(r) = 0 THEN {None}
    ELSE {LET cell == r[drop + 1].cell
              builder == GenomeBuilderNew
              passed == cell_build_genome(cell, GenomeBuilderClone(builder))
          IN  Some(GenomeBuilderBuild(builder)) : drop \in 0..(Len(r) - 1)}

(***************************************************************************)
(* Simulator (simulator.rs).                                               *)
(***************************************************************************)
EmptyMap == [k \in {} |-> 0]

\* object_cell.get(id).and_then(|cell_id| cells.get(cell_id)): the index of
\* the cell in the arena, 0 for none.
CellOfObject(cs, oc, object_id) ==
    IF object_id \in DOMAIN oc THEN IndexOf(cs, oc[object_id]) ELSE 0

\* One contact of Simulator::handle_contacts (lines 175-210): the arena after
\* it, and the energy exchange it made, if any.
handle_contact(cs, oc, contact, dt) ==
    IF contact.kind = "Surface"
    THEN LET i == CellOfObject(cs, oc, contact.id)
         IN  [cells |-> IF i = 0 THEN cs
                        ELSE [cs EXCEPT ![i].v = on_surface_contact(@, contact.normal)],
              exchange |-> <<>>]
    ELSE LET i1 == CellOfObject(cs, oc, contact.id1)
             i2 == CellOfObject(cs, oc, contact.id2)
         IN  IF i1 = 0 \/ i2 = 0 THEN [cells |-> cs, exchange |-> <<>>]
             ELSE LET delta1 == energy_absorption_from(cs[i1].v, cs[i2].v, dt)
                      delta2 == energy_absorption_from(cs[i2].v, cs[i1].v, dt)
                      cs1 == [cs EXCEPT ![i1].v =
                                on_cell_contact(@, delta1 - delta2, contact.normal)]
                      cs2 == [cs1 EXCEPT ![i2].v =
                                on_cell_contact(@, delta2 - delta1, contact.normal)]
                  IN  [cells |-> cs2,
                       exchange |-> <<[id1 |-> cs[i1].id, id2 |-> cs[i2].id,
                                       delta1 |-> delta1, delta2 |-> delta2,
                                       before1 |-> cs[i1].v, before2 |-> cs[i2].v,
                                       after1 |-> cs2[i1].v, after2 |-> cs2[i2].v]>>]

RECURSIVE handle_contacts_from(_, _, _, _, _, _)
handle_contacts_from(cs, oc, contacts, dt, k, exchanges) ==
    IF k > Len(contacts) THEN [cells |-> cs, exchanges |-> exchanges]
    ELSE LET r == handle_contact(cs, oc, contacts[k], dt)
         IN  handle_contacts_from(r.cells, oc, contacts, dt, k + 1,
                                  exchanges \o r.exchange)

\* The reset at the head of Simulator::handle_contacts: lines 170-172.
reset_contacts(c) == [c EXCEPT !.contact_count = 0]

\* Simulator::handle_contacts(dt), for the contacts physics reports.
handle_contacts(cs, oc, contacts, dt) ==
    handle_contacts_from(Collect([i \in 1..Len(cs) |-> [cs[i] EXCEPT !.v = reset_contacts(@)]]),
                         oc, contacts, dt, 1, <<>>)

\* The body of the loop of Simulator::update_cells for the cell at index i,
\* lines 216-234.  st holds the arena, the physics objects, both queues and
\* the history of this tick.
update_cell(st, i, dt, out) ==
    LET id == st.cells[i].id
        cell == st.cells[i].v
        oi == IndexOf(st.objects, cell.object_id)
        \* lines 222-234, steps being the cell after each step of its update
        after(steps) ==
            LET updated == steps[Len(steps)]
                objects1 == IF oi = 0 THEN st.objects
                            ELSE [st.objects EXCEPT
                                    ![oi].v.radius = contracted_size(updated)]
                entry == [id |-> id, updated |-> updated,
                          energies |-> Collect([k \in 1..Len(steps) |-> steps[k].energy]),
                          divided |-> FALSE]
                born(added) ==
                    LET parent == divide_parent(updated)
                        child == divide_child(updated, added.id)
                    IN  [st EXCEPT !.cells[i].v = parent, !.objects = added.objects,
                                   !.next_id = added.next_id,
                                   !.born_cells = Append(@, child),
                                   !.log = Append(@, [entry EXCEPT !.divided = TRUE]
                                              @@ [parent |-> parent, child |-> child])]
            IN  IF is_dead(updated)
                THEN [st EXCEPT !.cells[i].v = updated, !.objects = objects1,
                                !.dead_cells = Append(@, id),
                                !.log = Append(@, entry)]
                ELSE IF should_divide(updated)
                THEN IF oi = 0
                     THEN [st EXCEPT !.cells[i].v = updated, !.panicked = "cell-object"]
                     ELSE born(add_object(objects1, st.next_id, SCALE))
                ELSE [st EXCEPT !.cells[i].v = updated, !.objects = objects1,
                                !.log = Append(@, entry)]
    IN  after(IF oi = 0 THEN <<cell>>
              ELSE UpdateSteps(cell, dt, out, st.objects[oi].v.mass))

RECURSIVE update_cells_from(_, _, _, _)
update_cells_from(st, i, dt, outs) ==
    IF i > Len(st.cells) \/ st.panicked # "no" THEN st
    ELSE update_cells_from(update_cell(st, i, dt, outs[i]), i + 1, dt, outs)

\* Simulator::update_cells(dt); outs[i] are the neural outputs of cell i.
update_cells(cs, objs, next_id, dead, born, dt, outs) ==
    update_cells_from([cells |-> cs, objects |-> objs, next_id |-> next_id,
                       dead_cells |-> dead, born_cells |-> born,
                       panicked |-> "no", log |-> <<>>], 1, dt, outs)

\* Simulator::energy_fitness_score.
energy_fitness_score(cell) ==
    LET energy_positive == cell.stats.energy_produced + cell.stats.energy_absorbed_in
        energy_negative == cell.stats.energy_consumed + cell.stats.energy_absorbed_out
    IN  Div(SCALE + energy_positive, SCALE + energy_negative)

\* C11's mutant: the dead cell is not given to the rank.
remove_dead_cell_unranked(st, cell_id) ==
    LET i == IndexOf(st.cells, cell_id)
        cell == st.cells[i].v
    IN  IF i = 0 THEN st
        ELSE [cells |-> MapRemove(st.cells, cell_id),
              objects |-> remove_object(st.objects, cell.object_id),
              rank |-> st.rank,
              log |-> Append(st.log, [id |-> cell_id, object_id |-> cell.object_id,
                                      score |-> energy_fitness_score(cell)])]

\* The body of the loop of Simulator::remove_dead_cells for one queued id.
remove_dead_cell(st, cell_id) ==
    LET i == IndexOf(st.cells, cell_id)
        cell == st.cells[i].v
        fitness_score == energy_fitness_score(cell)
    IN  IF i = 0 THEN st
        ELSE [cells |-> MapRemove(st.cells, cell_id),
              objects |-> remove_object(st.objects, cell.object_id),
              rank |-> rank_insert(st.rank, RANK_SIZE, fitness_score, cell),
              log |-> Append(st.log, [id |-> cell_id, object_id |-> cell.object_id,
                                      score |-> fitness_score])]

RECURSIVE remove_dead_cells_from(_, _, _)
remove_dead_cells_from(st, dead, k) ==
    IF k > Len(dead) THEN st
    ELSE remove_dead_cells_from(remove_dead_cell(st, dead[k]), dead, k + 1)

\* Simulator::remove_dead_cells: drains the queue.
remove_dead_cells(cs, objs, r, dead) ==
    remove_dead_cells_from([cells |-> cs, objects |-> objs, rank |-> r, log |-> <<>>],
                           dead, 1)

\* Simulator::add_random_cell with the rng's draws d (d.size is the radius);
\* find_free_position only chooses where the object goes.
add_random_cell(st, d) ==
    LET added == add_object(st.objects, st.phys_next_id, d.size)
        cell_id == st.next_cell_id
    IN  [st EXCEPT
            !.objects = added.objects,
            !.phys_next_id = added.next_id,
            !.next_cell_id = cell_id + 1,
            !.cells = MapInsert(@, cell_id, CellRandom(added.id, d.size, d)),
            !.object_cell = (added.id :> cell_id) @@ @]

\* Simulator::create_recombined_genome: the outcomes it can have, None, a
\* genome, or the panic of Genome::cross.
create_recombined_genome(r) ==
    UNION {IF genome1.some /\ genome2.some
           THEN {IF o.panic THEN o ELSE Returned(Some(o.value)) :
                    o \in cross(genome1.value, genome2.value)}
           ELSE {Returned(None)} :
             genome1 \in choose_random_genome(r), genome2 \in choose_random_genome(r)}

\* Simulator::add_cell(genome): todo!().
add_cell(st, genome) == [st EXCEPT !.panicked = "not yet implemented"]

\* The while loop of Simulator::add_born_cells, lines 256-262: the states it
\* can end in, over what the rng draws.
RECURSIVE replenish(_)
replenish(st) ==
    IF ~(Len(st.cells) < st.min_cells) THEN {st}
    ELSE UNION {IF o.panic THEN {[st EXCEPT !.panicked = o.why]}
                ELSE IF o.value.some THEN {add_cell(st, o.value.value)}
                ELSE UNION {replenish(add_random_cell(st, d)) : d \in RandomDraws} :
                  o \in create_recombined_genome(st.rank)}

RECURSIVE insert_born_cells(_, _, _)
insert_born_cells(st, born, k) ==
    IF k > Len(born) THEN st
    ELSE insert_born_cells([st EXCEPT !.cells = MapInsert(@, st.next_cell_id, born[k]),
                                      !.next_cell_id = @ + 1],
                           born, k + 1)

\* Simulator::add_born_cells: drains the queue, then replenishes.
add_born_cells(st) ==
    replenish([insert_born_cells(st, st.born_cells, 1) EXCEPT !.born_cells = <<>>])

\* The simulator's own fields and the physics', as one record.
SimState ==
    [cells |-> cells, next_cell_id |-> next_cell_id, object_cell |-> object_cell,
     min_cells |-> min_cells, rank |-> rank, born_cells |-> born_cells,
     dead_cells |-> dead_cells, objects |-> objects, phys_next_id |-> phys_next_id,
     panicked |-> panicked]

\* Simulator::update(dt): the states it can end in, with the history of the
\* tick, for the contacts physics reports and the neural outputs outs[i] of
\* the cell at index i.
update(st, dt, contacts, outs) ==
    LET \* line 166, after the three steps before it
        finish(contacted, updated, removed) ==
            LET swept == [st EXCEPT !.cells = removed.cells,
                                    !.objects = removed.objects,
                                    !.rank = removed.rank, !.dead_cells = <<>>,
                                    !.born_cells = updated.born_cells,
                                    !.phys_next_id = updated.next_id]
                log == [dt |-> dt, contacts |-> contacts, before |-> st.cells,
                        contacted |-> contacted.cells,
                        exchanges |-> contacted.exchanges,
                        updates |-> updated.log, dead |-> updated.dead_cells,
                        removed |-> removed.log, born |-> updated.born_cells,
                        rank_before |-> st.rank, swept |-> Len(removed.cells)]
            IN  IF updated.panicked # "no"
                THEN {[state |-> [st EXCEPT !.cells = updated.cells,
                                            !.panicked = updated.panicked],
                       log |-> log]}
                ELSE {[state |-> s, log |-> log] : s \in add_born_cells(swept)}
        \* line 165
        sweep(contacted, updated) ==
            finish(contacted, updated,
                   remove_dead_cells(updated.cells, updated.objects, st.rank,
                                     updated.dead_cells))
        \* line 164
        tick_cells(contacted) ==
            sweep(contacted,
                  update_cells(contacted.cells, st.objects, st.phys_next_id,
                               <<>>, st.born_cells, dt, outs))
    IN  tick_cells(handle_contacts(st.cells, st.object_cell, contacts, dt))

NoTick ==
    [dt |-> 0, contacts |-> <<>>, before |-> <<>>, contacted |-> <<>>,
     exchanges |-> <<>>, updates |-> <<>>, dead |-> <<>>, removed |-> <<>>,
     born |-> <<>>, rank_before |-> <<>>, swept |-> 0]

NoCloser == [arena |-> <<>>, x |-> 0, y |-> 0, asked |-> FALSE, result |-> None]

\* No part is examined on its own.
NoParts ==
    /\ builders = <<>>
    /\ crossing = <<>>
    /\ ranking = <<>>
    /\ object_set = <<>>

NoUnits ==
    /\ lone = <<>>
    /\ neurons = <<>>
    /\ engine = <<>>
    /\ collision = <<>>

\* Simulator::new(world_size).with_min_cells(n).
Init ==
    /\ cells = <<>>
    /\ next_cell_id = 0
    /\ time = 0
    /\ dead_cells = <<>>
    /\ born_cells = <<>>
    /\ object_cell = EmptyMap
    /\ min_cells \in 0..MaxMinCells
    /\ rank = <<>>
    /\ objects = <<>>
    /\ phys_next_id = 0
    /\ phys_time = 0
    /\ panicked = "no"
    /\ calls = [updates |-> 0, added |-> 0, elapsed |-> 0]
    /\ tick = NoTick
    /\ closer = NoCloser
    /\ NoParts
    /\ NoUnits

\* A call of Simulator::add_random_cell().
AddRandomCell ==
    /\ panicked = "no"
    /\ calls.added < MaxAdded
    /\ Len(cells) < MaxCells
    /\ \E d \in RandomDraws :
        LET st == add_random_cell(SimState, d)
        IN  /\ cells' = st.cells
            /\ next_cell_id' = st.next_cell_id
            /\ object_cell' = st.object_cell
            /\ objects' = st.objects
            /\ phys_next_id' = st.phys_next_id
    /\ calls' = [calls EXCEPT !.added = @ + 1]
    /\ UNCHANGED <<time, dead_cells, born_cells, min_cells, rank, phys_time, panicked,
                   tick, closer, partVars, unitVars>>

\* A call of Simulator::update(DEFAULT_DELTA), as the application makes it.
Update ==
    /\ panicked = "no"
    /\ calls.updates < MaxUpdates
    /\ \E contacts \in ContactLists(objects),
          outs \in [1..Len(cells) -> NeuralOutputs] :
        \E r \in update(SimState, DEFAULT_DELTA, contacts, outs) :
            /\ cells' = r.state.cells
            /\ next_cell_id' = r.state.next_cell_id
            /\ object_cell' = r.state.object_cell
            /\ objects' = r.state.objects
            /\ phys_next_id' = r.state.phys_next_id
            /\ rank' = r.state.rank
            /\ dead_cells' = r.state.dead_cells
            /\ born_cells' = r.state.born_cells
            /\ panicked' = r.state.panicked
            /\ tick' = r.log
    /\ phys_time' = phys_time + DEFAULT_DELTA
    /\ calls' = [calls EXCEPT !.updates = @ + 1, !.elapsed = @ + DEFAULT_DELTA]
    /\ UNCHANGED <<time, min_cells, closer, partVars, unitVars>>

Next == AddRandomCell \/ Update

Spec == Init /\ [][Next]_vars

(***************************************************************************)
(* A simulator in mid-run.  Nothing happens to a new cell for a long time: *)
(* the reserve takes at least 189 ticks of 1/60 s to reach the smallest    *)
(* division threshold.  The cells below are what Cell::update makes of a   *)
(* new cell, tick after tick, up to the tick before it divides or dies.    *)
(***************************************************************************)
\* The cell after up to n more updates with the outputs out, stopping before
\* the update that makes it divide or die (the loop of update_cells for a
\* cell nothing touches).
RECURSIVE Age(_, _, _, _)
Age(c, out, mass, n) ==
    IF n = 0 THEN c
    ELSE LET next(u) ==
                IF is_dead(u) \/ should_divide(u) THEN c ELSE Age(u, out, mass, n - 1)
         IN  next(CellUpdate(c, DEFAULT_DELTA, out, mass))

Eager == CHOOSE o \in NeuralOutputs : o.division_energy_reserve = SCALE

SmallDraw == CHOOSE d \in RandomDraws : d.size = SCALE

LargeDraw == CHOOSE d \in RandomDraws : d.size # SCALE

\* A small cell one tick before its first division.
RipeCell ==
    Age(CellRandom(0, SmallDraw.size, SmallDraw), Eager,
        ObjectNew(SmallDraw.size).mass, MaxAge)

\* The child of that division, one tick before the reserve has taken its
\* energy down to the threshold of life.
FadingCell ==
    LET parent == CellUpdate(RipeCell, DEFAULT_DELTA, Eager,
                             ObjectNew(SmallDraw.size).mass)
    IN  Age(divide_child(parent, 0), Eager, ObjectNew(SCALE).mass, MaxAge)

\* A large cell that has raised its absorption for a second.
GrownCell ==
    Age(CellRandom(0, LargeDraw.size, LargeDraw), Eager,
        ObjectNew(LargeDraw.size).mass, SCALE \div DEFAULT_DELTA)

\* Each cell with the radius its object was added with: add_random_cell
\* gives the cell's size, divide gives 1.0.
Ripe == [cell |-> RipeCell, radius |-> SmallDraw.size]

Fading == [cell |-> FadingCell, radius |-> SCALE]

Grown == [cell |-> GrownCell, radius |-> LargeDraw.size]

\* The populations examined: the cells in arena order, cell i on object i.
Populations ==
    LET arenas(ripe, fading, grown) ==
            { <<fading>>,
              <<ripe>>,
              <<grown, fading>>,
              <<ripe, fading, grown>>,
              <<fading, ripe, grown>> }
    IN  arenas(Ripe, Fading, Grown)

\* The object of a cell after update_cells: the mass it was added with, the
\* radius set_radius gave it.
ObjectOf(e) ==
    [mass |-> ObjectNew(e.radius).mass, radius |-> contracted_size(e.cell)]

InitLive ==
    /\ \E p \in Populations :
        /\ cells = [i \in 1..Len(p) |->
                    [id |-> i - 1, v |-> [p[i].cell EXCEPT !.object_id = i - 1]]]
        /\ objects = [i \in 1..Len(p) |-> [id |-> i - 1, v |-> ObjectOf(p[i])]]
        /\ object_cell = [i \in 0..(Len(p) - 1) |-> i]
        /\ next_cell_id = Len(p)
        /\ phys_next_id = Len(p)
        /\ min_cells \in 0..Min(MaxMinCells, Len(p))
    /\ time = 0
    /\ dead_cells = <<>>
    /\ born_cells = <<>>
    /\ rank = <<>>
    /\ phys_time = MaxAge * DEFAULT_DELTA
    /\ panicked = "no"
    /\ calls = [updates |-> MaxUpdates - 1, added |-> 0, elapsed |-> MaxAge * DEFAULT_DELTA]
    /\ tick = NoTick
    /\ closer = NoCloser
    /\ NoParts
    /\ NoUnits

SpecLive == InitLive /\ [][Next]_vars

(***************************************************************************)
(* Simulator::get_cell_id_closer_to, on an arena of its own: each entry is *)
(* a cell id and what physics.get_object gives for the cell, none or an    *)
(* object with its position and radius.  Distances are compared by their   *)
(* squares, which orders them as the norms do.                             *)
(***************************************************************************)
Dist2(object, x, y) ==
    (object.x - x) * (object.x - x) + (object.y - y) * (object.y - y)

\* The loop body, lines 143-155, for the entry e and the selection so far.
closer_step(selected, e, x, y) ==
    IF ~e.object.some THEN selected
    ELSE LET dist == Dist2(e.object.value, x, y)
             hit == dist <= e.object.value.radius * e.object.value.radius
             this == Some([cell_id |-> e.cell_id, dist |-> dist, hit |-> hit])
         IN  IF ~selected.some THEN this
             ELSE IF dist < selected.value.dist /\ (hit \/ ~selected.value.hit)
             THEN this
             ELSE selected

RECURSIVE closer_from(_, _, _, _, _)
closer_from(arena, x, y, k, selected) ==
    IF k > Len(arena) THEN selected
    ELSE closer_from(arena, x, y, k + 1, closer_step(selected, arena[k], x, y))

\* Simulator::get_cell_id_closer_to(x, y).
get_cell_id_closer_to(arena, x, y) ==
    LET selected == closer_from(arena, x, y, 1, None)
    IN  IF selected.some THEN Some(selected.value.cell_id) ELSE None

\* What a cell of the arena can have for an object.
CloserObjects ==
    {None} \cup {Some([x |-> c[1], y |-> c[2], radius |-> r]) :
                    c \in {<<2, 0>>, <<0, 3>>, <<0, -2>>}, r \in {1, 4}}

\* The arenas examined: up to MaxArena cells, cell k with the id k - 1.
CloserArenas ==
    UNION {{[k \in 1..n |-> [cell_id |-> k - 1, object |-> os[k]]] :
                os \in [1..n -> CloserObjects]} : n \in 0..MaxArena}

InitCloser ==
    /\ cells = <<>>
    /\ next_cell_id = 0
    /\ time = 0
    /\ dead_cells = <<>>
    /\ born_cells = <<>>
    /\ object_cell = EmptyMap
    /\ min_cells = 0
    /\ rank = <<>>
    /\ objects = <<>>
    /\ phys_next_id = 0
    /\ phys_time = 0
    /\ panicked = "no"
    /\ calls = [updates |-> 0, added |-> 0, elapsed |-> 0]
    /\ tick = NoTick
    /\ \E arena \in CloserArenas :
        closer = [NoCloser EXCEPT !.arena = arena]
    /\ NoParts
    /\ NoUnits

\* A call of get_cell_id_closer_to(x, y).
Select ==
    /\ \E x \in {0, 1}, y \in {0} :
        closer' = [closer EXCEPT
                    !.x = x, !.y = y, !.asked = TRUE,
                    !.result = get_cell_id_closer_to(closer.arena, x, y)]
    /\ UNCHANGED <<simVars, partVars, unitVars>>

NextCloser == Select

SpecCloser == InitCloser /\ [][NextCloser]_vars

(***************************************************************************)
(* Properties.  tick is the history of the last update(): the arena before *)
(* it, each cell right after its own Cell::update, what was removed, what  *)
(* was born.                                                               *)
(***************************************************************************)
\* An update() has been called in this run.
Ticked == tick.dt > 0

\* The indices of the cells updated in the last tick.
Updated == 1..Len(tick.updates)

\* C1: with min_cells = n, every update() returns normally and leaves at
\* least n cells in the arena, also in a tick where cells died and the rank
\* is non-empty.
C1_UpdateKeepsMinCells ==
    Ticked => /\ panicked = "no"
              /\ Len(cells) >= min_cells

\* C2: a cell that is dead after its own update is, at the end of the same
\* update(), out of the arena, its object out of the physics engine, and it
\* has been given to the rank under its fitness score; a cell that is not
\* dead after its update stays in the arena.
C2_DeadCellsAreRemoved ==
    \A i \in Updated :
        LET e == tick.updates[i]
            dies == \/ e.updated.energy + e.updated.stored_energy <= ALIVE_ENERGY_THRESHOLD
                    \/ e.updated.zero_energy_time >= e.updated.zero_energy_limit
        IN  IF dies
            THEN /\ e.id \notin Keys(cells)
                 /\ e.updated.object_id \notin Keys(objects)
                 /\ \E k \in 1..Len(tick.removed) :
                        /\ tick.removed[k].id = e.id
                        /\ tick.removed[k].object_id = e.updated.object_id
                        /\ tick.removed[k].score = energy_fitness_score(e.updated)
                 /\ \E k \in 1..Len(rank) :
                        /\ rank[k].score = energy_fitness_score(e.updated)
                        /\ rank[k].cell = e.updated
            ELSE /\ e.id \in Keys(cells)
                 /\ e.updated.object_id \in Keys(objects)
                 /\ \A k \in 1..Len(tick.removed) : tick.removed[k].id # e.id

\* C2's case: a cell died in the last tick and the rank holds it.
C2_Witness ==
    /\ Len(rank) > 0
    /\ \E i \in Updated : is_dead(tick.updates[i].updated)
    /\ \E i \in Updated : ~is_dead(tick.updates[i].updated)

\* C3: in a tick a cell spawns a child exactly when, after its own update,
\* it is not dead, energy >= area * DIVISION_COST, the reserve has reached
\* the threshold and the grow factor is at least 1; no cell spawns more than
\* one child in a tick.
C3_DivisionCondition ==
    /\ \A i \in Updated :
        LET e == tick.updates[i]
            c == e.updated
            dead == \/ c.energy + c.stored_energy <= ALIVE_ENERGY_THRESHOLD
                    \/ c.zero_energy_time >= c.zero_energy_limit
        IN  e.divided <=> /\ ~dead
                          /\ c.energy >= MulRat(c.area, 1, DIVISION_COST_INV)
                          /\ c.division_energy_reserve >= c.division_threshold
                          /\ c.division_grow_factor >= SCALE
    /\ \A i, j \in Updated : tick.updates[i].id = tick.updates[j].id => i = j
    /\ Len(tick.born) = Cardinality({i \in Updated : tick.updates[i].divided})

\* C3's case: in the last tick one cell divided and another did not.
C3_Witness ==
    /\ \E i \in Updated : tick.updates[i].divided
    /\ \E i \in Updated : ~tick.updates[i].divided
    /\ Len(tick.born) = 1

\* C4, as the spec states it: on a division, the energy of the parent plus
\* the energy of the child right after it equals the energy of the parent
\* right before it minus the division cost.
C4_EnergyAsStated ==
    \A i \in Updated :
        LET e == tick.updates[i]
        IN  e.divided =>
                e.parent.energy + e.child.energy
                    = e.updated.energy - MulRat(e.updated.area, 1, DIVISION_COST_INV)

\* C4, amended: on a division, the energy of the parent plus the energy of
\* the child right after it equals the energy of the parent plus its
\* division energy reserve right before it, minus the division cost.
C4_EnergyWithReserve ==
    \A i \in Updated :
        LET e == tick.updates[i]
        IN  e.divided =>
                e.parent.energy + e.child.energy
                    = e.updated.energy + e.updated.division_energy_reserve
                        - MulRat(e.updated.area, 1, DIVISION_COST_INV)

\* C4's case: a division of a cell whose reserve and division cost are positive.
C4_Witness ==
    \E i \in Updated :
        /\ tick.updates[i].divided
        /\ tick.updates[i].updated.division_energy_reserve > 0
        /\ MulRat(tick.updates[i].updated.area, 1, DIVISION_COST_INV) > 0
        /\ tick.updates[i].child.energy > 0

\* The bounds C5 speaks of, for one cell.
WithinLimits(c) ==
    /\ 0 <= c.contraction_amount
    /\ c.contraction_amount <= c.contraction_limit
    /\ 0 <= c.contact_energy_absorption_amount
    /\ c.contact_energy_absorption_amount <= c.contact_energy_absorption_limit
    /\ c.division_grow_factor <= SCALE

\* C5: for every cell made by Cell::random or Cell::child_from and updated
\* any number of times with neural outputs in [-1, 1],
\* 0 <= contraction_amount <= contraction_limit,
\* 0 <= contact_energy_absorption_amount <= contact_energy_absorption_limit
\* and division_grow_factor <= 1.
C5_AmountsWithinLimits ==
    /\ \A i \in 1..Len(cells) : WithinLimits(cells[i].v)
    /\ \A i \in 1..Len(rank) : WithinLimits(rank[i].cell)
    /\ \A i \in Updated :
        /\ WithinLimits(tick.updates[i].updated)
        /\ tick.updates[i].divided => WithinLimits(tick.updates[i].child)

\* C5's case: after a tick, a cell contracts and absorbs at its limits, both
\* positive, and another has its amounts at zero under positive limits.
C5_Witness ==
    /\ Ticked
    /\ \E i \in 1..Len(cells) :
        /\ cells[i].v.contraction_limit > 0
        /\ cells[i].v.contraction_amount = cells[i].v.contraction_limit
        /\ cells[i].v.contact_energy_absorption_amount
                = cells[i].v.contact_energy_absorption_limit
    /\ \E i \in Updated :
        /\ tick.updates[i].updated.contact_energy_absorption_limit > 0
        /\ tick.updates[i].updated.contact_energy_absorption_amount
                < tick.contacted[i].v.contact_energy_absorption_amount

ContactsOf(object_id) ==
    SelectSeq(tick.contacts,
              LAMBDA k : IF k.kind = "Surface" THEN k.id = object_id
                         ELSE object_id \in {k.id1, k.id2})

RECURSIVE SumNormals(_)
SumNormals(contacts) ==
    IF contacts = <<>> THEN Zeros2
    ELSE Add2(Head(contacts).normal, SumNormals(Tail(contacts)))

\* C7: after every update(), the contact_count of each cell is the number of
\* contacts reported for it in this tick and its contact_normal is the sum of
\* their normals, the zero vector when there were none.
C7_ContactsOfTick ==
    Ticked =>
        \A i \in 1..Len(cells) :
            LET mine == ContactsOf(cells[i].v.object_id)
            IN  /\ cells[i].v.contact_count = Len(mine)
                /\ cells[i].v.contact_normal = SumNormals(mine)

\* What one cell absorbs from another, as C8 states it.
Absorbed(c, other, dt) ==
    Mul(Mul(c.contact_energy_absorption_amount,
            Mul(other.energy, energy_permeability(other))), dt)

\* C8: in a contact of two different cells, with d1 and d2 what each absorbs
\* from the other as computed from their states before the contact, the
\* energy of cell 1 changes by d1 - d2 and that of cell 2 by d2 - d1, the
\* total is unchanged, and the gaining cell's absorbed_in and the losing
\* cell's absorbed_out both grow by |d1 - d2|.
C8_SymmetricExchange ==
    \A k \in 1..Len(tick.exchanges) :
        LET x == tick.exchanges[k]
            d1 == Absorbed(x.before1, x.before2, tick.dt)
            d2 == Absorbed(x.before2, x.before1, tick.dt)
            gainer == IF d1 >= d2 THEN 1 ELSE 2
            before == <<x.before1, x.before2>>
            after == <<x.after1, x.after2>>
        IN  x.id1 # x.id2 =>
                /\ x.after1.energy = x.before1.energy + (d1 - d2)
                /\ x.after2.energy = x.before2.energy + (d2 - d1)
                /\ x.after1.energy + x.after2.energy
                        = x.before1.energy + x.before2.energy
                /\ after[gainer].stats.energy_absorbed_in
                        = before[gainer].stats.energy_absorbed_in + Abs(d1 - d2)
                /\ after[3 - gainer].stats.energy_absorbed_out
                        = before[3 - gainer].stats.energy_absorbed_out + Abs(d1 - d2)

\* C8's case: a contact where both cells absorb, one more than the other.
C8_Witness ==
    \E k \in 1..Len(tick.exchanges) :
        /\ tick.exchanges[k].id1 # tick.exchanges[k].id2
        /\ tick.exchanges[k].delta1 > 0
        /\ tick.exchanges[k].delta2 > 0
        /\ tick.exchanges[k].delta1 # tick.exchanges[k].delta2

\* C10: after k calls of update(dt) on a new simulator, time() is k * dt.
C10_TimeAdvances == time = calls.elapsed

\* The cells of the arena of get_cell_id_closer_to that have an object.
WithObject == {k \in 1..Len(closer.arena) : closer.arena[k].object.some}

\* The squared distance from the query point to the center of cell k.
CenterDist2(k) == Dist2(closer.arena[k].object.value, closer.x, closer.y)

\* The cells whose disk contains the query point.
Containing ==
    {k \in WithObject :
        CenterDist2(k) <= closer.arena[k].object.value.radius
                            * closer.arena[k].object.value.radius}

\* C9: get_cell_id_closer_to returns none exactly when no cell has an
\* object; when some disk contains the point it returns the cell with the
\* nearest center among the cells whose disk contains it; otherwise the
\* cell with the nearest center; among equal distances the first in arena
\* order.
C9_CloserAsStated ==
    closer.asked =>
        LET pool == IF Containing # {} THEN Containing ELSE WithObject
        IN  /\ (closer.result = None) <=> (WithObject = {})
            /\ WithObject # {} =>
                \E k \in pool :
                    /\ closer.result = Some(closer.arena[k].cell_id)
                    /\ \A j \in pool :
                        /\ CenterDist2(k) <= CenterDist2(j)
                        /\ CenterDist2(j) = CenterDist2(k) => k <= j

C12_InsertionOrder ==
    /\ \A i, j \in Updated : i < j => tick.updates[i].id < tick.updates[j].id
    /\ \A i, j \in 1..Len(cells) : i < j => cells[i].id < cells[j].id

(***************************************************************************)
(* GenomeBuilder on its own (genome.rs 83-120).  Each builder is a struct  *)
(* that holds its RefCell<BTreeMap> by value: refs[1] is the root from     *)
(* GenomeBuilder::new(), the others were made from a live builder by       *)
(* nested(name) or clone().  added is the history: the gene last added     *)
(* under each key, through any builder.                                    *)
(***************************************************************************)
MaxBuilders == 3

MaxAdds == 2

NestedNames == {"neurons", "000"}

GenNames == {"size", "000"}

GenValues == {SCALE, 2 * SCALE}

InitBuilder ==
    /\ cells = <<>>
    /\ next_cell_id = 0
    /\ time = 0
    /\ dead_cells = <<>>
    /\ born_cells = <<>>
    /\ object_cell = EmptyMap
    /\ min_cells = 0
    /\ rank = <<>>
    /\ objects = <<>>
    /\ phys_next_id = 0
    /\ phys_time = 0
    /\ panicked = "no"
    /\ calls = [updates |-> 0, added |-> 0, elapsed |-> 0]
    /\ tick = NoTick
    /\ closer = NoCloser
    /\ NoUnits
    /\ builders = [refs |-> <<GenomeBuilderNew>>, added |-> EmptyGenes,
                   adds |-> 0, built |-> None]
    /\ crossing = <<>>
    /\ ranking = <<>>
    /\ object_set = <<>>

\* builder.nested(name) on a live builder.
BuilderNested ==
    /\ ~builders.built.some
    /\ Len(builders.refs) < MaxBuilders
    /\ \E b \in 1..Len(builders.refs), name \in NestedNames :
        builders' = [builders EXCEPT
                        !.refs = Append(@, GenomeBuilderNested(builders.refs[b], name))]
    /\ UNCHANGED <<simVars, closer, crossing, ranking, object_set, unitVars>>

\* builder.clone() on a live builder.
BuilderClone ==
    /\ ~builders.built.some
    /\ Len(builders.refs) < MaxBuilders
    /\ \E b \in 1..Len(builders.refs) :
        builders' = [builders EXCEPT
                        !.refs = Append(@, GenomeBuilderClone(builders.refs[b]))]
    /\ UNCHANGED <<simVars, closer, crossing, ranking, object_set, unitVars>>

\* builder.add(name, Gen { value }) on a live builder.
BuilderAdd ==
    /\ ~builders.built.some
    /\ builders.adds < MaxAdds
    /\ \E b \in 1..Len(builders.refs), name \in GenNames, value \in GenValues :
        builders' = [builders EXCEPT
                        !.refs[b] = GenomeBuilderAdd(@, name, value),
                        !.added = (Append(builders.refs[b].path, name) :> value) @@ @,
                        !.adds = @ + 1]
    /\ UNCHANGED <<simVars, closer, crossing, ranking, object_set, unitVars>>

\* root.build().
BuilderBuild ==
    /\ ~builders.built.some
    /\ builders' = [builders EXCEPT
                        !.built = Some(GenomeBuilderBuild(builders.refs[1]))]
    /\ UNCHANGED <<simVars, closer, crossing, ranking, object_set, unitVars>>

NextBuilder == BuilderNested \/ BuilderClone \/ BuilderAdd \/ BuilderBuild

SpecBuilder == InitBuilder /\ [][NextBuilder]_vars

\* C13: the genome the root builder builds holds every gene added through
\* the root or through a builder derived from it by nested() or clone(),
\* under the key path/name of the builder it was added through.
C13_SharedMapping ==
    (builders # <<>> /\ builders.built.some) =>
        \A k \in DOMAIN builders.added :
            /\ k \in DOMAIN builders.built.value
            /\ builders.built.value[k] = builders.added[k]

(***************************************************************************)
(* Genome::cross on its own (genome.rs 31-65): two genomes over the first  *)
(* MaxKeys gene keys, the genes of the first all 1.0 and the genes of the  *)
(* second all 2.0, so that a gene tells the parent it came from.           *)
(***************************************************************************)
MaxKeys == 4

CrossKeys == {GeneKeys[i] : i \in 1..MaxKeys}

InitCross ==
    /\ cells = <<>>
    /\ next_cell_id = 0
    /\ time = 0
    /\ dead_cells = <<>>
    /\ born_cells = <<>>
    /\ object_cell = EmptyMap
    /\ min_cells = 0
    /\ rank = <<>>
    /\ objects = <<>>
    /\ phys_next_id = 0
    /\ phys_time = 0
    /\ panicked = "no"
    /\ calls = [updates |-> 0, added |-> 0, elapsed |-> 0]
    /\ tick = NoTick
    /\ closer = NoCloser
    /\ NoUnits
    /\ builders = <<>>
    /\ \E K1 \in SUBSET CrossKeys, K2 \in SUBSET CrossKeys :
        crossing = [genome1 |-> [k \in K1 |-> SCALE],
                    genome2 |-> [k \in K2 |-> 2 * SCALE],
                    done |-> FALSE, outcomes |-> {}]
    /\ ranking = <<>>
    /\ object_set = <<>>

\* genome1.cross(&genome2): every outcome the rng allows.
Cross ==
    /\ ~crossing.done
    /\ crossing' = [crossing EXCEPT
                        !.done = TRUE,
                        !.outcomes = cross(crossing.genome1, crossing.genome2)]
    /\ UNCHANGED <<simVars, closer, builders, ranking, object_set, unitVars>>

NextCross == Cross

SpecCross == InitCross /\ [][NextCross]_vars

\* The union of the keys of the two genomes, ascending.
CrossUnion ==
    SelectSeq(GeneKeys,
              LAMBDA k : k \in DOMAIN crossing.genome1 \cup DOMAIN crossing.genome2)

\* The genome the spec describes for the split index i.
CrossAt(i) ==
    LET A == crossing.genome1
        B == crossing.genome2
        U == CrossUnion
    IN  [k \in {U[n] : n \in 1..Len(U)} |->
            IF \E n \in 1..i : U[n] = k
            THEN (IF k \in DOMAIN A THEN A[k] ELSE B[k])
            ELSE (IF k \in DOMAIN B THEN B[k] ELSE A[k])]

\* C16: a genome cross() returns has exactly the keys of the union, and for
\* some split index i the first i keys carry the first parent's gene (the
\* second's where the first lacks the key) and the others the second
\* parent's gene (the first's where the second lacks the key).
C16_CrossAtSplit ==
    (crossing # <<>> /\ crossing.done) =>
        \A o \in crossing.outcomes :
            ~o.panic =>
                /\ DOMAIN o.value = DOMAIN crossing.genome1 \cup DOMAIN crossing.genome2
                /\ \E i \in 1..Len(CrossUnion) : o.value = CrossAt(i)

\* C16's case: a returned genome with a key only the second parent has
\* before the split and a key only the first parent has after it.
C16_Witness ==
    /\ crossing # <<>>
    /\ crossing.done
    /\ \E o \in crossing.outcomes : ~o.panic
    /\ CrossUnion[1] \notin DOMAIN crossing.genome1
    /\ CrossUnion[Len(CrossUnion)] \notin DOMAIN crossing.genome2

\* C17: for a union of at least two keys cross() completes, and the genomes
\* it can return are those of the split indices 1 .. |U| - 1, all of them.
C17_SplitRange ==
    (crossing # <<>> /\ crossing.done /\ Len(CrossUnion) >= 2) =>
        crossing.outcomes = {Returned(CrossAt(i)) : i \in 1..(Len(CrossUnion) - 1)}

(***************************************************************************)
(* CellRank on its own (cell_rank.rs): rank holds its entries, ranking its *)
(* capacity and the history of what was asked of it.  A Scalar score is a  *)
(* number or NaN.                                                          *)
(***************************************************************************)
MaxRankSize == 2

MaxInserts == 3

NaN == [nan |-> TRUE]

Num(x) == [nan |-> FALSE, value |-> x]

\* NotNan::new(score).expect("non-nan-score"): line 40.
NotNanNew(score) ==
    IF score.nan THEN Panic("non-nan-score") ELSE Returned(score.value)

\* CellRank::insert(score, cell) for any Scalar: a panic or the new entries.
CellRankInsert(r, max_size, score, cell) ==
    LET checked(s) ==
            IF s.panic THEN s ELSE Returned(rank_insert(r, max_size, s.value, cell))
    IN  checked(NotNanNew(score))

RankScores == {Num(SCALE \div 2), Num(SCALE), Num(2 * SCALE), NaN}

RankCells == {CellRandom(0, d.size, d) : d \in RandomDraws}

\* CellRank::new(max_size).
InitRank ==
    /\ cells = <<>>
    /\ next_cell_id = 0
    /\ time = 0
    /\ dead_cells = <<>>
    /\ born_cells = <<>>
    /\ object_cell = EmptyMap
    /\ min_cells = 0
    /\ rank = <<>>
    /\ objects = <<>>
    /\ phys_next_id = 0
    /\ phys_time = 0
    /\ panicked = "no"
    /\ calls = [updates |-> 0, added |-> 0, elapsed |-> 0]
    /\ tick = NoTick
    /\ closer = NoCloser
    /\ NoUnits
    /\ builders = <<>>
    /\ crossing = <<>>
    /\ \E n \in 0..MaxRankSize :
        ranking = [max_size |-> n, inserted |-> <<>>, refused |-> FALSE,
                   before |-> <<>>, chosen |-> None, crossed |-> None]
    /\ object_set = <<>>

\* rank.insert(score, cell).
RankInsert ==
    /\ panicked = "no"
    /\ Len(ranking.inserted) < MaxInserts
    /\ \E score \in RankScores, cell \in RankCells :
        LET o == CellRankInsert(rank, ranking.max_size, score, cell)
        IN  IF o.panic
            THEN /\ panicked' = o.why
                 /\ rank' = rank
                 /\ ranking' = [ranking EXCEPT !.refused = TRUE, !.before = rank]
            ELSE /\ panicked' = panicked
                 /\ rank' = o.value
                 /\ ranking' = [ranking EXCEPT !.inserted = Append(@, score.value),
                                               !.before = rank]
    /\ UNCHANGED <<cells, next_cell_id, time, dead_cells, born_cells, object_cell,
                   min_cells, objects, phys_next_id, phys_time, calls, tick, closer,
                   builders, crossing, object_set, unitVars>>

\* rank.choose_random_genome(): every genome the rng allows.
RankChoose ==
    /\ panicked = "no"
    /\ ~ranking.chosen.some
    /\ ranking' = [ranking EXCEPT
                    !.chosen = Some([rank |-> rank,
                                     genomes |-> choose_random_genome(rank)])]
    /\ UNCHANGED <<simVars, closer, builders, crossing, object_set, unitVars>>

\* The genome of a stored cell, as choose_random_genome builds it (lines
\* 27-29), crossed with itself.
RankCross ==
    /\ panicked = "no"
    /\ ~ranking.crossed.some
    /\ \E g \in choose_random_genome(rank) :
        /\ g.some
        /\ ranking' = [ranking EXCEPT
                        !.crossed = Some([genome |-> g.value,
                                          outcomes |-> cross(g.value, g.value)])]
    /\ UNCHANGED <<simVars, closer, builders, crossing, object_set, unitVars>>

NextRank == RankInsert \/ RankChoose \/ RankCross

SpecRank == InitRank /\ [][NextRank]_vars

\* The genome g holds the genes of the cell: its six scalar genes and its
\* energy conversion ratios (the genes of the neurons are not part of a
\* model cell).
HoldsGenes(g, cell) ==
    /\ \A k \in {GeneKeys[i] : i \in 1..Len(GeneKeys)} : k \in DOMAIN g
    /\ g[<<"size">>] = cell.size
    /\ g[<<"zero_energy_limit">>] = cell.zero_energy_limit
    /\ g[<<"division_threshold">>] = cell.division_threshold
    /\ g[<<"movement_speed_limit">>] = cell.movement_speed_limit
    /\ g[<<"contraction_limit">>] = cell.contraction_limit
    /\ g[<<"contact_energy_absorption_limit">>] = cell.contact_energy_absorption_limit
    /\ \A i \in 1..NUM_MOLECULES :
            g[<<"molecules_energy_conversion", RowName[i], "000">>]
                = cell.molecules_energy_conversion[i]

\* C14: choose_random_genome returns none exactly when the rank is empty;
\* otherwise every genome it can return holds the genes of a stored cell,
\* and every stored cell can be the one chosen.
C14_ChosenGenome ==
    (ranking # <<>> /\ ranking.chosen.some) =>
        LET r == ranking.chosen.value.rank
            G == ranking.chosen.value.genomes
        IN  IF r = <<>> THEN G = {None}
            ELSE /\ \A g \in G :
                        /\ g.some
                        /\ \E n \in 1..Len(r) : HoldsGenes(g.value, r[n].cell)
                 /\ \A n \in 1..Len(r) :
                        \E g \in G : g.some /\ HoldsGenes(g.value, r[n].cell)

\* C15: crossing the genome built of a cell with itself completes and gives
\* back the same keys with the same genes.
C15_SelfCross ==
    (ranking # <<>> /\ ranking.crossed.some) =>
        \A o \in ranking.crossed.value.outcomes :
            /\ ~o.panic
            /\ DOMAIN o.value = DOMAIN ranking.crossed.value.genome
            /\ o.value = ranking.crossed.value.genome

\* The scores inserted so far, and whether they differ pairwise.
InsertedScores == {ranking.inserted[i] : i \in 1..Len(ranking.inserted)}

\* C18: the rank never holds more than its capacity n; after k inserts with
\* pairwise distinct scores it holds min(k, n) entries, those with the
\* highest scores inserted.
C18_RankCap ==
    ranking # <<>> =>
        LET k == Len(ranking.inserted)
            n == ranking.max_size
            held == {rank[i].score : i \in 1..Len(rank)}
        IN  /\ Len(rank) <= n
            /\ Cardinality(InsertedScores) = k =>
                /\ Len(rank) = Min(k, n)
                /\ held = {s \in InsertedScores :
                            Cardinality({t \in InsertedScores : t > s}) < Min(k, n)}

\* C18's case: more inserts than the capacity, all with different scores,
\* the lowest of them last.
C18_Witness ==
    /\ ranking # <<>>
    /\ ranking.max_size = MaxRankSize
    /\ Len(ranking.inserted) > ranking.max_size
    /\ Cardinality(InsertedScores) = Len(ranking.inserted)
    /\ \A s \in InsertedScores : ranking.inserted[Len(ranking.inserted)] <= s

\* C19: an insert with a NaN score stores nothing, leaves the entries as
\* they were and returns to its caller.
C19_NaNRejected ==
    (ranking # <<>> /\ ranking.refused) =>
        /\ rank = ranking.before
        /\ panicked = "no"

(***************************************************************************)
(* ObjectSet<T> on its own (object_set.rs): objects is the IndexMap as a   *)
(* sequence of [id, v] in index order; a handle is the id it wraps.  A     *)
(* reference is the index (from 0) of the entry it points to.              *)
(***************************************************************************)
MaxObjects == 3

ObjectValues == {"p", "q"}

\* IndexMap::get_index_of: Some(index from 0) or None.
get_index_of(objs, id) ==
    IF IndexOf(objs, id) = 0 THEN None ELSE Some(IndexOf(objs, id) - 1)

\* slice.split_at_mut(mid): the indices of the arena in each half.
split_at_mut(len, mid) ==
    [left |-> [j \in 0..(mid - 1) |-> j],
     right |-> [j \in 0..(len - mid - 1) |-> mid + j]]

\* &mut half[j] with j computed in usize: below 0 the subtraction overflows
\* (a panic with overflow checks; without them the index wraps around and
\* is out of bounds), beyond the half the index is out of bounds.
IndexMut(half, j) ==
    IF j < 0
    THEN {Panic("attempt to subtract with overflow"), Panic("index out of bounds")}
    ELSE IF j \notin DOMAIN half THEN {Panic("index out of bounds")}
    ELSE {Returned(half[j])}

\* The pair (first, second) of two indexing outcomes.
PairOf(first, second) ==
    {IF a.panic THEN a ELSE IF b.panic THEN b
     ELSE Returned(Some([first |-> a.value, second |-> b.value])) :
        a \in first, b \in second}

\* ObjectSet::get_pair_mut(handle1, handle2): its outcomes.
get_pair_mut(objs, handle1, handle2) ==
    LET index1 == get_index_of(objs, handle1)
        index2 == get_index_of(objs, handle2)
        halves(mid) == split_at_mut(Len(objs), mid)
    IN  IF index1.some /\ index2.some
        THEN IF index1.value <= index2.value
             THEN PairOf(IndexMut(halves(index1.value + 1).left, index1.value),
                         IndexMut(halves(index1.value + 1).right,
                                  index2.value - index1.value - 1))
             ELSE PairOf(IndexMut(halves(index2.value + 1).right,
                                  index1.value - index2.value - 1),
                         IndexMut(halves(index2.value + 1).left, index2.value))
        ELSE {Returned(None)}

NoPair == [asked |-> FALSE, handle1 |-> 0, handle2 |-> 0, outcomes |-> {}]

\* ObjectSet::get(handle).
set_get(set, handle) ==
    IF IndexOf(set.objects, handle) = 0 THEN None
    ELSE Some(set.objects[IndexOf(set.objects, handle)].v)

\* C21's mutant: the id of a new object is the number of stored objects.
set_insert_recycling(set, object) ==
    [set |-> [set EXCEPT !.objects = MapInsert(@, Len(set.objects), object),
                         !.next_id = @ + 1],
     handle |-> Len(set.objects)]

\* ObjectSet::insert(object): the set after it and the handle it returns.
set_insert(set, object) ==
    [set |-> [set EXCEPT !.objects = MapInsert(@, set.next_id, object),
                         !.next_id = @ + 1],
     handle |-> set.next_id]

\* ObjectSet::remove(handle).
set_remove(set, handle) == [set EXCEPT !.objects = MapRemove(@, handle)]

\* ObjectSet::new().
InitObjectSet ==
    /\ cells = <<>>
    /\ next_cell_id = 0
    /\ time = 0
    /\ dead_cells = <<>>
    /\ born_cells = <<>>
    /\ object_cell = EmptyMap
    /\ min_cells = 0
    /\ rank = <<>>
    /\ objects = <<>>
    /\ phys_next_id = 0
    /\ phys_time = 0
    /\ panicked = "no"
    /\ calls = [updates |-> 0, added |-> 0, elapsed |-> 0]
    /\ tick = NoTick
    /\ closer = NoCloser
    /\ NoUnits
    /\ builders = <<>>
    /\ crossing = <<>>
    /\ ranking = <<>>
    /\ object_set = [next_id |-> 0, objects |-> <<>>, pair |-> NoPair,
                     issued |-> <<>>, removed |-> {}]

\* ObjectSet::insert(object); issued is the history of the handles given
\* out, each with its object and the handles removed before it.
SetInsert ==
    /\ object_set.next_id < MaxObjects
    /\ \E object \in ObjectValues :
        LET r == set_insert(object_set, object)
        IN  object_set' = [r.set EXCEPT
                            !.pair = NoPair,
                            !.issued = Append(@, [handle |-> r.handle,
                                                  object |-> object,
                                                  removed |-> object_set.removed])]
    /\ UNCHANGED <<simVars, closer, builders, crossing, ranking, unitVars>>

\* ObjectSet::remove(handle), for a handle the set has given out.
SetRemove ==
    /\ \E handle \in 0..(object_set.next_id - 1) :
        /\ IndexOf(object_set.objects, handle) # 0
        /\ object_set' = [set_remove(object_set, handle) EXCEPT
                            !.pair = NoPair,
                            !.removed = @ \cup {handle}]
    /\ UNCHANGED <<simVars, closer, builders, crossing, ranking, unitVars>>

\* ObjectSet::get_pair_mut(handle1, handle2), for handles the set has given
\* out, live or removed.
GetPairMut ==
    /\ \E handle1, handle2 \in 0..(object_set.next_id - 1) :
        object_set' = [object_set EXCEPT
                        !.pair = [asked |-> TRUE, handle1 |-> handle1,
                                  handle2 |-> handle2,
                                  outcomes |-> get_pair_mut(object_set.objects,
                                                            handle1, handle2)]]
    /\ UNCHANGED <<simVars, closer, builders, crossing, ranking, unitVars>>

NextObjectSet == SetInsert \/ SetRemove \/ GetPairMut

SpecObjectSet == InitObjectSet /\ [][NextObjectSet]_vars

\* C20: get_pair_mut never fails; it returns none when a handle is absent
\* or both handles are the same, and otherwise references to the objects of
\* handle1 and handle2, in this order, which are two different entries.
C20_PairOrNone ==
    (object_set # <<>> /\ object_set.pair.asked) =>
        LET objs == object_set.objects
            h1 == object_set.pair.handle1
            h2 == object_set.pair.handle2
            none == \/ IndexOf(objs, h1) = 0
                    \/ IndexOf(objs, h2) = 0
                    \/ h1 = h2
        IN  \A o \in object_set.pair.outcomes :
                /\ ~o.panic
                /\ none <=> ~o.value.some
                /\ o.value.some =>
                        /\ objs[o.value.value.first + 1].id = h1
                        /\ objs[o.value.value.second + 1].id = h2
                        /\ o.value.value.first # o.value.value.second

\* C21: every handle insert returned and nobody removed resolves to the
\* object it was issued for, a removed handle resolves to none, and no two
\* inserts returned the same id.
C21_HandlesStayValid ==
    object_set # <<>> =>
        /\ \A k \in 1..Len(object_set.issued) :
            LET e == object_set.issued[k]
            IN  set_get(object_set, e.handle) =
                    IF e.handle \in object_set.removed THEN None ELSE Some(e.object)
        /\ \A j, k \in 1..Len(object_set.issued) :
            object_set.issued[j].handle = object_set.issued[k].handle => j = k

\* C21's case: an insert after a removal, and a live object that a removal
\* has moved to another place of the arena.
C21_Witness ==
    /\ object_set # <<>>
    /\ \E k \in 1..Len(object_set.issued) :
        /\ object_set.issued[k].removed # {}
        /\ object_set.issued[k].handle \notin object_set.removed
    /\ \E i \in 1..Len(object_set.objects) : object_set.objects[i].id # i - 1


(***************************************************************************)
(* A cell on its own, update after update, as update_cells drives it       *)
(* (simulator.rs 214-236): Cell::update, then the cell is queued for       *)
(* removal if it is dead, or divides if it should.                         *)
(***************************************************************************)
MaxTicks == 4

NoSimulator ==
    /\ cells = <<>>
    /\ next_cell_id = 0
    /\ time = 0
    /\ dead_cells = <<>>
    /\ born_cells = <<>>
    /\ object_cell = EmptyMap
    /\ min_cells = 0
    /\ rank = <<>>
    /\ objects = <<>>
    /\ phys_next_id = 0
    /\ phys_time = 0
    /\ panicked = "no"
    /\ calls = [updates |-> 0, added |-> 0, elapsed |-> 0]
    /\ tick = NoTick
    /\ closer = NoCloser
    /\ NoParts

\* Draws of Cell::random that make a cell rich in molecules and short of
\* patience: three updates at low energy are its limit.
LeanDraw ==
    [size |-> SCALE, zero_energy_limit |-> 3 * DEFAULT_DELTA,
     threshold_factor |-> SCALE,
     molecule |-> MAX_MOLECULE_AMOUNT, conversion |-> (9 * SCALE) \div 10,
     movement_speed_limit |-> 0, contraction_limit |-> 0,
     contact_energy_absorption_limit |-> MAX_CONTACT_ENERGY_ABSORPTION,
     working_neurons |-> 39]

\* The neural outputs that turn energy into molecules.
Saving == CHOOSE o \in NeuralOutputs : o.division_energy_reserve = -SCALE

\* The loop of update_cells for a cell nothing touches: s.cell after up to n
\* more updates with the outputs out, stopping (s.done) before the update
\* that makes it die or divide and, if low, before the update that ends
\* with its energy at or below the threshold of life.
RECURSIVE Season(_, _, _, _, _)
Season(s, out, mass, low, n) ==
    IF s.done THEN s
    ELSE IF n = 1
    THEN LET step(u) ==
                IF \/ low /\ u.energy <= ALIVE_ENERGY_THRESHOLD
                   \/ is_dead(u)
                   \/ should_divide(u)
                THEN [s EXCEPT !.done = TRUE]
                ELSE [cell |-> u, done |-> FALSE]
         IN  step(CellUpdate(s.cell, DEFAULT_DELTA, out, mass))
    ELSE Season(Season(s, out, mass, low, n \div 2), out, mass, low, n - n \div 2)

\* A lean cell one tick before its first division.
LeanCell ==
    Season([cell |-> CellRandom(0, LeanDraw.size, LeanDraw), done |-> FALSE],
           Eager, ObjectNew(LeanDraw.size).mass, FALSE, MaxAge).cell

\* The child of that division, one update before the metabolism has turned
\* its energy into molecules.
HungryCell ==
    LET child(parent) == [cell |-> divide_child(parent, 1), done |-> FALSE]
    IN  Season(child(CellUpdate(LeanCell, DEFAULT_DELTA, Eager,
                                ObjectNew(LeanDraw.size).mass)),
               Saving, ObjectNew(SCALE).mass, TRUE, MaxAge).cell

\* The cells examined, each with the mass of its object.
LoneCells ==
    { [cell |-> HungryCell, mass |-> ObjectNew(SCALE).mass],
      [cell |-> LeanCell, mass |-> ObjectNew(LeanDraw.size).mass] }
    \cup { [cell |-> CellRandom(0, d.size, d), mass |-> ObjectNew(d.size).mass] :
            d \in RandomDraws \cup {LeanDraw} }

\* streak is the history: the number of the most recent consecutive updates
\* that ended with energy <= ALIVE_ENERGY_THRESHOLD.
InitCell ==
    /\ NoSimulator
    /\ \E c \in LoneCells :
        lone = [cell |-> c.cell, mass |-> c.mass, streak |-> 0, ticks |-> 0,
                removed |-> FALSE, divided |-> FALSE]
    /\ neurons = <<>>
    /\ engine = <<>>
    /\ collision = <<>>

\* One turn of the loop of update_cells for the cell, and remove_dead_cells
\* for it: the cell is updated; dead, it leaves the arena in this tick;
\* ready to divide, it divides.
CellTick ==
    /\ ~lone.removed
    /\ lone.ticks < MaxTicks
    /\ \E out \in NeuralOutputs :
        LET after(u) ==
                [lone EXCEPT
                    !.cell = IF ~is_dead(u) /\ should_divide(u) THEN divide_parent(u) ELSE u,
                    !.streak = IF u.energy <= ALIVE_ENERGY_THRESHOLD THEN @ + 1 ELSE 0,
                    !.ticks = @ + 1,
                    !.removed = is_dead(u),
                    !.divided = ~is_dead(u) /\ should_divide(u)]
        IN  lone' = after(CellUpdate(lone.cell, DEFAULT_DELTA, out, lone.mass))
    /\ UNCHANGED <<simVars, closer, partVars, neurons, engine, collision>>

NextCell == CellTick

SpecCell == InitCell /\ [][NextCell]_vars

\* C27: after every Cell::update the zero-energy timer is dt times the number
\* of the most recent consecutive updates that ended with energy <=
\* ALIVE_ENERGY_THRESHOLD, and a cell that was low for zero_energy_limit / dt
\* updates in a row, rounded up, has left the arena, whatever it has stored.
C27_ZeroEnergyTimer ==
    lone # <<>> =>
        /\ lone.cell.zero_energy_time = DEFAULT_DELTA * lone.streak
        /\ lone.streak * DEFAULT_DELTA >= lone.cell.zero_energy_limit => lone.removed

\* C27's case: a cell removed at the end of its second low update or later
\* while it holds energy in molecules, far above the threshold.
C27_Witness ==
    /\ lone # <<>>
    /\ lone.removed
    /\ lone.streak >= 2
    /\ lone.streak * DEFAULT_DELTA >= lone.cell.zero_energy_limit
    /\ lone.cell.energy + lone.cell.stored_energy > ALIVE_ENERGY_THRESHOLD

(***************************************************************************)
(* Neurons on their own (neurons.rs): the weights of the three layers, a   *)
(* row per neuron, as Neurons::random draws them.                          *)
(***************************************************************************)
\* The sizes examined: NumInputs inputs, NumInputs / 2 processing neurons
\* (NUM_PROCESSING = NUM_INPUTS / 2), NumOutputs outputs.
NumInputs == 2

NumOutputs == 2

\* rng.gen_range(-1.0..1.0) of Layer::random.
WeightValues == {-(SCALE \div 2), 0, SCALE \div 2}

\* M<O, I>: o rows of i weights.
Matrices(o, i) == [1..o -> [1..i -> WeightValues]]

\* weights.apply_into(|x| *x = if x.abs() > 0.0 { 1.0 } else { 0.0 }), lines
\* 285-287: self.weights is a Copy matrix behind &self, so apply_into works
\* on a copy; active is the matrix of ones and zeros it returns.
ActiveOf(weights) ==
    [r \in DOMAIN weights |->
        [c \in DOMAIN weights[r] |-> IF Abs(weights[r][c]) > 0 THEN 1 ELSE 0]]

\* Matrix::sum(): the sum of all components.
MatrixSum(m) == SumSeq([r \in 1..Len(m) |-> SumSeq(m[r])])

\* Layer::num_working_neurons: active.row_sum().apply(..) clamps a temporary
\* and drops it (lines 288-290); the result is active.sum() (line 291).
layer_num_working_neurons(weights) == MatrixSum(ActiveOf(weights))

\* Neurons::random, for the weights the rng draws.
NeuronsRandom(input, processing, output) ==
    [input_layer |-> input,
     processing_layer |-> processing,
     output_layer |-> output,
     working_neurons |-> layer_num_working_neurons(input)
                            + layer_num_working_neurons(processing)
                            + layer_num_working_neurons(output)]

\* drawn is the history: the weights as the rng drew them.
InitNeurons ==
    /\ NoSimulator
    /\ \E input \in Matrices(NumInputs \div 2, NumInputs),
          processing \in Matrices(NumInputs \div 2, NumInputs \div 2),
          output \in Matrices(NumOutputs, NumInputs \div 2) :
        neurons = [net |-> NeuronsRandom(input, processing, output),
                   drawn |-> <<input, processing, output>>,
                   basal |-> None]
    /\ lone = <<>>
    /\ engine = <<>>
    /\ collision = <<>>

\* Cell::basal_energy of the cell that owns the net (cell.rs 198-200).
BasalEnergy ==
    /\ ~neurons.basal.some
    /\ neurons' = [neurons EXCEPT
                    !.basal = Some(basal_energy([working_neurons |->
                                                    neurons.net.working_neurons]))]
    /\ UNCHANGED <<simVars, closer, partVars, lone, engine, collision>>

NextNeurons == BasalEnergy

SpecNeurons == InitNeurons /\ [][NextNeurons]_vars

\* The number of rows of the matrix that hold a weight other than zero.
WorkingRows(weights) ==
    Cardinality({r \in DOMAIN weights : \E c \in DOMAIN weights[r] : weights[r][c] # 0})

\* The layers of the net, the input layer first.
LayersOf(net) == <<net.input_layer, net.processing_layer, net.output_layer>>

\* C26: for every layer num_working_neurons is the number of neurons (rows)
\* with a weight other than zero, between 0 and the number of neurons, and
\* the weights stay as drawn; the basal cost of the cell is the sum of the
\* three counts times NEURON_COST.
C26_WorkingNeurons ==
    neurons # <<>> =>
        LET layers == LayersOf(neurons.net)
            rows == WorkingRows(layers[1]) + WorkingRows(layers[2]) + WorkingRows(layers[3])
        IN  /\ \A l \in 1..3 :
                /\ layer_num_working_neurons(layers[l]) = WorkingRows(layers[l])
                /\ layer_num_working_neurons(layers[l]) \in 0..Len(layers[l])
            /\ layers = neurons.drawn
            /\ neurons.net.working_neurons = rows
            /\ neurons.basal.some =>
                    neurons.basal.value = (rows * SCALE) \div NEURON_COST_INV

\* The parts of C26 the code does keep: the weights stay as drawn, and the
\* count is the number of weights other than zero, at most neurons * inputs.
C26_CountsWeights ==
    neurons # <<>> =>
        /\ LayersOf(neurons.net) = neurons.drawn
        /\ \A l \in 1..3 :
            LET w == neurons.drawn[l]
            IN  layer_num_working_neurons(w) =
                    Cardinality({rc \in (DOMAIN w) \X (1..NumInputs) :
                                    rc[2] \in DOMAIN w[rc[1]] /\ w[rc[1]][rc[2]] # 0})

(***************************************************************************)
(* The Physics engine on its own (physics/engine.rs), with particles and   *)
(* springs.  No collider is added, so check_collisions has nothing to do.  *)
(***************************************************************************)
MaxParticles == 2

MaxSprings == 1

MaxEngineUpdates == 2

DEFAULT_STEP_TIME == SCALE \div 60

DEFAULT_NUM_ITERATIONS == 5

DEFAULT_GRAVITY == (981 * SCALE) \div 100

DEFAULT_DRAG == SCALE \div 100

DEFAULT_RESTITUTION == (6 * SCALE) \div 10

DEFAULT_FRICTION == SCALE \div 2

Sub2(u, v) == <<u[1] - v[1], u[2] - v[2]>>

\* v * k for a vector v and a scalar k.
Scale2(v, k) == <<Mul(v[1], k), Mul(v[2], k)>>

Dot2(u, v) == Mul(u[1], v[1]) + Mul(u[2], v[2])

\* The largest r in lo..hi with r * r <= m.
RECURSIVE SqrtBetween(_, _, _)
SqrtBetween(m, lo, hi) ==
    IF lo >= hi THEN lo
    ELSE IF MulNN((lo + hi + 1) \div 2, (lo + hi + 1) \div 2) <= m
    THEN SqrtBetween(m, (lo + hi + 1) \div 2, hi)
    ELSE SqrtBetween(m, lo, (lo + hi + 1) \div 2 - 1)

\* f64::sqrt of m >= 0.
Sqrt(m) == SqrtBetween(m, 0, Max(m, SCALE))

\* Vec2::magnitude.
Magnitude(v) == Sqrt(Dot2(v, v))

\* Vec2::normalize; a vector too short for the fixed point has no direction.
Normalize(v) ==
    LET unit(m) == IF m = 0 THEN Zeros2 ELSE <<Div(v[1], m), Div(v[2], m)>>
    IN  unit(Magnitude(v))

\* Particle::new(position).with_mass(mass).
ParticleNew(position, mass) ==
    [mass |-> mass, radius |-> 0, position |-> position, previous |-> position,
     velocity |-> Zeros2, acceleration |-> Zeros2]

\* Physics::new(world_size); log and relaxed are the history of the last
\* update: its phases in the order they ran, and what update_springs did to
\* the two particles of each spring.
PhysicsNew(world_size) ==
    [time |-> 0,
     world_size |-> world_size,
     step_time |-> DEFAULT_STEP_TIME,
     num_iterations |-> DEFAULT_NUM_ITERATIONS,
     gravity |-> <<0, DEFAULT_GRAVITY>>,
     drag |-> DEFAULT_DRAG,
     restitution |-> DEFAULT_RESTITUTION,
     friction |-> DEFAULT_FRICTION,
     particles |-> [next_id |-> 0, objects |-> <<>>],
     springs |-> [next_id |-> 0, objects |-> <<>>],
     colliders |-> [next_id |-> 0, objects |-> <<>>],
     updates |-> 0,
     log |-> <<>>,
     relaxed |-> <<>>]

\* Physics::drag_acceleration.
drag_acceleration(mass, velocity, half_drag) ==
    IF velocity = Zeros2 THEN Zeros2
    ELSE LET drag_force(velocity_magnitude) ==
                Scale2(Normalize(velocity),
                       Mul(Mul(half_drag, velocity_magnitude), velocity_magnitude))
             over(force) == <<Div(force[1], mass), Div(force[2], mass)>>
         IN  over(drag_force(Magnitude(velocity)))

\* The body of the loop of Physics::update_particles for one particle.
update_particle(particle, dt, gravity, drag) ==
    LET half_dt == MulRat(dt, 1, 2)
        integrate(next_acc) ==
            [particle EXCEPT
                !.position = Add2(Add2(@, Scale2(particle.velocity, dt)),
                                  Scale2(particle.acceleration, Mul(half_dt, dt))),
                !.velocity = Add2(@, Scale2(Add2(particle.acceleration, next_acc), half_dt)),
                !.acceleration = next_acc]
    IN  integrate(Sub2(gravity, drag_acceleration(particle.mass, particle.velocity,
                                                  MulRat(drag, 1, 2))))

\* Physics::update_particles(dt).
update_particles(e, dt) ==
    [e EXCEPT
        !.particles.objects =
            [i \in 1..Len(@) |->
                [id |-> @[i].id, v |-> update_particle(@[i].v, dt, e.gravity, e.drag)]],
        !.log = Append(@, [phase |-> "update_particles", dt |-> dt])]

\* The body of the loop of Physics::update_springs for one spring whose
\* particles are at the indices i1 and i2 of the arena: both particles move
\* by 0.5 * axis * d3, one towards the other.
relax(objs, i1, i2, spring) ==
    LET axis == Sub2(objs[i2].v.position, objs[i1].v.position)
        moved(step) ==
            [objs EXCEPT ![i1].v.position = Add2(@, step),
                         ![i2].v.position = Sub2(@, step)]
        along(distance) ==
            moved(Scale2(<<MulRat(axis[1], 1, 2), MulRat(axis[2], 1, 2)>>,
                         Div(MulRat(distance - spring.length, 1, 2), distance)))
    IN  along(Magnitude(axis))

\* Physics::update_springs from the k-th spring on; get_pair_mut yields the
\* pair when both handles are live and differ.
RECURSIVE update_springs_from(_, _)
update_springs_from(e, k) ==
    IF k > Len(e.springs.objects) THEN e
    ELSE LET spring == e.springs.objects[k].v
             i1 == IndexOf(e.particles.objects, spring.particle1)
             i2 == IndexOf(e.particles.objects, spring.particle2)
             after(objs) ==
                [e EXCEPT
                    !.particles.objects = objs,
                    !.relaxed = Append(@, [spring |-> spring,
                                           before1 |-> e.particles.objects[i1].v,
                                           before2 |-> e.particles.objects[i2].v,
                                           after1 |-> objs[i1].v,
                                           after2 |-> objs[i2].v])]
         IN  IF i1 = 0 \/ i2 = 0 \/ i1 = i2
             THEN update_springs_from(e, k + 1)
             ELSE update_springs_from(after(relax(e.particles.objects, i1, i2, spring)),
                                      k + 1)

\* Physics::update_springs.
update_springs(e) ==
    update_springs_from([e EXCEPT !.log = Append(@, [phase |-> "update_springs"])], 1)

\* Physics::check_collisions: the loops over the colliders, none here, and
\* the empty loop over the pairs of particles.
check_collisions(e) == [e EXCEPT !.log = Append(@, [phase |-> "check_collisions"])]

\* The body of the loop of Physics::apply_world_constrains for one particle:
\* the walls x = 0 and x = world_size.x, then the floor and the ceiling.
apply_world_constrain(particle, world_size, restitution, friction) ==
    LET bounced_x(x) ==
            [particle EXCEPT
                !.position = <<x, @[2]>>,
                !.velocity = <<Mul(@[1], -restitution), @[2] - Mul(@[2], friction)>>]
        in_x ==
            IF particle.position[1] > world_size[1] - particle.radius
            THEN bounced_x(world_size[1] - particle.radius)
            ELSE IF particle.position[1] < particle.radius
            THEN bounced_x(particle.radius)
            ELSE particle
        in_y(p) ==
            IF p.position[2] >= world_size[2] - p.radius
            THEN [p EXCEPT
                    !.position = <<@[1], 2 * (world_size[2] - p.radius) - @[2]>>,
                    !.velocity =
                        <<@[1] - Mul(@[1], IF Abs(@[1]) < SCALE \div 10
                                           THEN (9 * SCALE) \div 10 ELSE SCALE \div 100),
                          Mul(@[2], -restitution)>>]
            ELSE IF p.position[2] < p.radius
            THEN [p EXCEPT
                    !.position = <<@[1], p.radius>>,
                    !.velocity = <<@[1] + Mul(-@[1], friction), Mul(@[2], -restitution)>>]
            ELSE p
    IN  in_y(in_x)

\* Physics::apply_world_constrains.
apply_world_constrains(e) ==
    [e EXCEPT
        !.particles.objects =
            [i \in 1..Len(@) |->
                [id |-> @[i].id,
                 v |-> apply_world_constrain(@[i].v, e.world_size, e.restitution,
                                             e.friction)]],
        !.log = Append(@, [phase |-> "apply_world_constrains"])]

\* The loop of Physics::update, n sub-steps to go.
RECURSIVE sub_steps(_, _, _)
sub_steps(e, sub_step_time, n) ==
    IF n = 0 THEN e
    ELSE sub_steps(apply_world_constrains(
                       check_collisions(update_springs(update_particles(e, sub_step_time)))),
                   sub_step_time, n - 1)

\* Physics::update.
physics_update(e) ==
    [sub_steps([e EXCEPT !.log = <<>>, !.relaxed = <<>>],
               MulRat(e.step_time, 1, e.num_iterations), e.num_iterations)
        EXCEPT !.time = @ + e.step_time]

WorldSize == <<8 * SCALE, 8 * SCALE>>

ParticlePositions ==
    {<<SCALE, SCALE>>, <<4 * SCALE, SCALE>>, <<4 * SCALE, 5 * SCALE>>, <<SCALE, 8 * SCALE>>}

ParticleMasses == {SCALE, 2 * SCALE}

SpringLengths == {SCALE, 5 * SCALE}

InitPhysics ==
    /\ NoSimulator
    /\ engine = PhysicsNew(WorldSize)
    /\ lone = <<>>
    /\ neurons = <<>>
    /\ collision = <<>>

\* Physics::add_particle, while the world is being built, at a free place.
AddParticle ==
    /\ engine.updates = 0
    /\ Len(engine.particles.objects) < MaxParticles
    /\ \E position \in ParticlePositions, mass \in ParticleMasses :
        /\ \A i \in 1..Len(engine.particles.objects) :
                engine.particles.objects[i].v.position # position
        /\ engine' = [engine EXCEPT
                        !.particles = set_insert(@, ParticleNew(position, mass)).set]
    /\ UNCHANGED <<simVars, closer, partVars, lone, neurons, collision>>

\* Physics::add_spring(Spring::new(particle1, particle2, length, 1.0)) for
\* two different particles of the world.
AddSpring ==
    /\ engine.updates = 0
    /\ Len(engine.springs.objects) < MaxSprings
    /\ \E particle1, particle2 \in Keys(engine.particles.objects),
          length \in SpringLengths :
        /\ particle1 # particle2
        /\ engine' = [engine EXCEPT
                        !.springs = set_insert(@, [particle1 |-> particle1,
                                                   particle2 |-> particle2,
                                                   length |-> length,
                                                   strength |-> SCALE]).set]
    /\ UNCHANGED <<simVars, closer, partVars, lone, neurons, collision>>

\* Physics::update().
PhysicsUpdate ==
    /\ engine.updates < MaxEngineUpdates
    /\ engine' = [physics_update(engine) EXCEPT !.updates = @ + 1]
    /\ UNCHANGED <<simVars, closer, partVars, lone, neurons, collision>>

NextPhysics == AddParticle \/ AddSpring \/ PhysicsUpdate

SpecPhysics == InitPhysics /\ [][NextPhysics]_vars

\* The phases of the last update, in the order they ran.
PhasesOf(e) == [k \in 1..Len(e.log) |-> e.log[k].phase]

\* C22: in every sub-step of Physics::update the phases run in the order
\* integrate, world boundaries, springs, collisions.
C22_SubStepOrder ==
    engine # <<>> =>
        /\ Len(engine.log) % 4 = 0
        /\ \A s \in 0..(Len(engine.log) \div 4 - 1) :
            SubSeq(PhasesOf(engine), 4 * s + 1, 4 * s + 4) =
                <<"update_particles", "apply_world_constrains",
                  "update_springs", "check_collisions">>

\* The order the code has: the world boundaries come last.
C22_BoundariesLast ==
    engine # <<>> =>
        /\ Len(engine.log) % 4 = 0
        /\ \A s \in 0..(Len(engine.log) \div 4 - 1) :
            SubSeq(PhasesOf(engine), 4 * s + 1, 4 * s + 4) =
                <<"update_particles", "update_springs",
                  "check_collisions", "apply_world_constrains">>

\* The sub-steps of the last update that integrated the particles.
Integrations(e) == {k \in 1..Len(e.log) : e.log[k].phase = "update_particles"}

\* C23: with the default configuration one update makes 10 sub-steps, each
\* integrating with dt = step_time / 10, and advances time by step_time.
C23_TenSubSteps ==
    (engine # <<>> /\ engine.updates > 0) =>
        /\ Cardinality(Integrations(engine)) = 10
        /\ \A k \in Integrations(engine) : engine.log[k].dt = MulRat(engine.step_time, 1, 10)
        /\ engine.time = engine.updates * engine.step_time

\* What the code does: num_iterations sub-steps of step_time /
\* num_iterations, and time advances by step_time per update.
C23_SubStepsOfTheEngine ==
    (engine # <<>> /\ engine.updates > 0) =>
        /\ Cardinality(Integrations(engine)) = engine.num_iterations
        /\ \A k \in Integrations(engine) :
            engine.log[k].dt = MulRat(engine.step_time, 1, engine.num_iterations)
        /\ engine.time = engine.updates * engine.step_time

\* How far a particle is after a relaxation from where it was before.
Moved(before, after) == Magnitude(Sub2(after.position, before.position))

\* The distance between two particles.
Apart(p1, p2) == Magnitude(Sub2(p2.position, p1.position))

\* C25: a relaxation of a spring off its rest length between particles of
\* unequal mass moves both particles, brings their distance closer to the
\* rest length and moves the heavier particle strictly less than the
\* lighter one; at rest length neither particle moves.
C25_HeavierMovesLess ==
    engine # <<>> =>
        \A k \in 1..Len(engine.relaxed) :
            LET r == engine.relaxed[k]
            IN  /\ Apart(r.before1, r.before2) = r.spring.length =>
                    r.after1 = r.before1 /\ r.after2 = r.before2
                /\ (Apart(r.before1, r.before2) # r.spring.length
                        /\ r.before1.mass # r.before2.mass) =>
                    /\ Abs(Apart(r.after1, r.after2) - r.spring.length)
                            <= Abs(Apart(r.before1, r.before2) - r.spring.length)
                    /\ r.before1.mass > r.before2.mass =>
                            Moved(r.before1, r.after1) < Moved(r.before2, r.after2)
                    /\ r.before2.mass > r.before1.mass =>
                            Moved(r.before2, r.after2) < Moved(r.before1, r.after1)

\* What the code does: both particles move by the same step, one towards
\* the other, whatever their masses.
C25_EqualSteps ==
    engine # <<>> =>
        \A k \in 1..Len(engine.relaxed) :
            LET r == engine.relaxed[k]
            IN  /\ Sub2(r.after1.position, r.before1.position)
                        = Sub2(r.before2.position, r.after2.position)
                /\ Apart(r.before1, r.before2) = r.spring.length =>
                    r.after1 = r.before1 /\ r.after2 = r.before2
                /\ Abs(Apart(r.after1, r.after2) - r.spring.length)
                        <= Abs(Apart(r.before1, r.before2) - r.spring.length)

(***************************************************************************)
(* Polygon colliders (physics/geometry, physics/collisions).               *)
(***************************************************************************)

MaxColliderUpdates == 2

MaxResolves == 2

\* AxisAlignedBoundingBox::from_min_max.
from_min_max(min, max) ==
    [center |-> <<MulRat(min[1] + max[1], 1, 2), MulRat(min[2] + max[2], 1, 2)>>,
     size |-> Sub2(max, min)]

\* AxisAlignedBoundingBox::contains_point.
contains_point(box, point) ==
    LET half_size == <<MulRat(box.size[1], 1, 2), MulRat(box.size[2], 1, 2)>>
        within(min, max) ==
            /\ point[1] >= min[1]
            /\ point[1] <= max[1]
            /\ point[2] >= min[2]
            /\ point[2] <= max[2]
    IN  within(Sub2(box.center, half_size), Add2(box.center, half_size))

\* AxisAlignedBoundingBox::intersects.
intersects(box, other) ==
    /\ Abs(other.center[1] - box.center[1]) * 2 < other.size[1] + box.size[1]
    /\ Abs(other.center[2] - box.center[2]) * 2 < other.size[2] + box.size[2]

\* AxisAlignedBoundingBoxBuilder: new() starts min and max at the origin,
\* add_point takes the componentwise inf and sup, build() makes the box.
bounding_box_build(points) ==
    LET xs == {0} \cup {points[i][1] : i \in 1..Len(points)}
        ys == {0} \cup {points[i][2] : i \in 1..Len(points)}
        least(s) == CHOOSE a \in s : \A b \in s : a <= b
        greatest(s) == CHOOSE a \in s : \A b \in s : a >= b
    IN  from_min_max(<<least(xs), least(ys)>>, <<greatest(xs), greatest(ys)>>)

\* ClosedPolygon::empty().
polygon_empty == [segments |-> <<>>, bounding_box |-> from_min_max(Zeros2, Zeros2)]

\* ClosedPolygon::update(points): segment i starts at point i and ends at the
\* next point of the ring.
polygon_update(points) ==
    [segments |->
        Collect([i \in 1..Len(points) |->
            [point |-> points[i],
             inv_length |->
                Div(SCALE, Magnitude(Sub2(points[(i % Len(points)) + 1], points[i])))]]),
     bounding_box |-> bounding_box_build(points)]

\* ClosedPolygon::has_point_inside.
has_point_inside(polygon, point) ==
    LET len == Len(polygon.segments)
        crosses(a, b) ==
            /\ (point[2] < a[2]) # (point[2] < b[2])
            /\ point[1] < a[1] + Mul(Div(point[2] - a[2], b[2] - a[2]), b[1] - a[1])
    IN  Cardinality({i \in 1..len :
            crosses(polygon.segments[i].point,
                    polygon.segments[(i % len) + 1].point)}) % 2 = 1

\* ClosedPolygon::distance_to_segment.
distance_to_segment(point, a, b, inv_length) ==
    LET ab == Sub2(b, a)
        ap == Sub2(point, a)
        within(projection_ratio) ==
            IF projection_ratio >= 0 /\ projection_ratio <= SCALE
            THEN Some([distance |->
                            Mul(Mul(ab[1], a[2] - point[2]) - Mul(a[1] - point[1], ab[2]),
                                inv_length),
                       ratio |-> projection_ratio])
            ELSE None
    IN  within(Mul(Mul(Dot2(ap, ab), inv_length), inv_length))

\* The loop of ClosedPolygon::closest_segment_within_bounding_box from index1
\* on: every value maybe_closest_segment can end with, a tie being decided by
\* random().
RECURSIVE closest_from(_, _, _, _, _)
closest_from(polygon, point, bounding_box, index1, maybe) ==
    IF index1 >= Len(polygon.segments) THEN {maybe}
    ELSE LET index2 == (index1 + 1) % Len(polygon.segments)
             next(m) == closest_from(polygon, point, bounding_box, index1 + 1, m)
             compare(sp1, sp2, candidate) ==
                IF \/ ~(\/ contains_point(bounding_box, sp1.point)
                        \/ contains_point(bounding_box, sp2.point))
                   \/ ~candidate.some
                THEN next(maybe)
                ELSE LET segment == [index1 |-> index1, index2 |-> index2,
                                     point1 |-> sp1.point, point2 |-> sp2.point,
                                     depth |-> candidate.value.distance,
                                     ratio |-> candidate.value.ratio]
                     IN  IF ~maybe.some THEN next(Some(segment))
                         ELSE IF segment.depth < maybe.value.depth
                         THEN next(Some(segment))
                         ELSE IF segment.depth = maybe.value.depth
                         THEN next(Some(segment)) \cup next(maybe)
                         ELSE next(maybe)
         IN  compare(polygon.segments[index1 + 1], polygon.segments[index2 + 1],
                     distance_to_segment(point, polygon.segments[index1 + 1].point,
                                         polygon.segments[index2 + 1].point,
                                         polygon.segments[index1 + 1].inv_length))

\* ClosedPolygon::closest_segment_within_bounding_box: its possible results.
closest_segment_within_bounding_box(polygon, point, bounding_box) ==
    closest_from(polygon, point, bounding_box, 0, None)

\* Particle::inv_mass of the particle of a handle, 0 without one
\* (unwrap_or_default).
inv_mass_of(particles, handle) ==
    IF set_get(particles, handle).some
    THEN Div(SCALE, set_get(particles, handle).value.mass)
    ELSE 0

\* The direction resolve_point_in_polygon calls normal: the unit vector of
\* the segment with its x component negated.
resolver_normal(segment_point1, segment_point2) ==
    LET negate_x(axis) == <<-axis[1], axis[2]>>
    IN  negate_x(Normalize(Sub2(segment_point2, segment_point1)))

\* depth * inv_mass0 / total_inv_mass of resolve_point_in_polygon.
particle_depth_of(particles, c) ==
    Div(Mul(c.depth, inv_mass_of(particles, c.particle_handle)),
        inv_mass_of(particles, c.particle_handle)
            + inv_mass_of(particles, c.segment_handle1)
            + inv_mass_of(particles, c.segment_handle2))

\* CollisionResolver::resolve_point_in_polygon: the particles after it, and
\* whether get_pair_mut on the two segment handles panicked.
resolve_point_in_polygon(particles, c) ==
    LET particle_point ==
            Add2(c.particle_point,
                 Scale2(resolver_normal(c.segment_point1, c.segment_point2),
                        particle_depth_of(particles, c)))
        written ==
            IF IndexOf(particles.objects, c.particle_handle) = 0 THEN particles
            ELSE [particles EXCEPT
                    !.objects[IndexOf(particles.objects, c.particle_handle)].v.position =
                        particle_point]
    IN  {[particles |-> written,
          panicked |-> IF pair.panic THEN pair.why ELSE "no"] :
            pair \in get_pair_mut(particles.objects, c.segment_handle1, c.segment_handle2)}

\* collider.particle_handles[index]: a 0-based index into a Vec.
HandleAt(particle_handles, index) ==
    IF index < Len(particle_handles) THEN Returned(particle_handles[index + 1])
    ELSE Panic("index out of bounds")

\* The body of the loop of resolve_collisions_between_polygons for the vertex
\* at place k of collider and a closest segment of the other polygon: the
\* handle lookups, then the resolver. The history keeps what was looked up.
resolve_vertex(collider, other, s, k, segment) ==
    LET segment_handle1 == HandleAt(collider.particle_handles, segment.index1)
        segment_handle2 == HandleAt(collider.particle_handles, segment.index2)
        resolved_with(c) ==
            {[particles |-> r.particles,
              panicked |-> r.panicked,
              resolved |-> Append(s.resolved,
                    [c |-> c, index1 |-> segment.index1, index2 |-> segment.index2,
                     vertex |-> k,
                     collider_handles |-> collider.particle_handles,
                     other_handles |-> other.particle_handles,
                     before |-> s.particles, after |-> r.particles])] :
                r \in resolve_point_in_polygon(s.particles, c)}
    IN  IF segment_handle1.panic THEN {[s EXCEPT !.panicked = segment_handle1.why]}
        ELSE IF segment_handle2.panic THEN {[s EXCEPT !.panicked = segment_handle2.why]}
        ELSE resolved_with([particle_handle |-> collider.particle_handles[k],
                            particle_point |-> collider.polygon.segments[k].point,
                            segment_handle1 |-> segment_handle1.value,
                            segment_handle2 |-> segment_handle2.value,
                            segment_point1 |-> segment.point1,
                            segment_point2 |-> segment.point2,
                            ratio |-> segment.ratio,
                            depth |-> segment.depth])

\* The loop of resolve_collisions_between_polygons from the vertex at place k
\* on, over the handles zipped with the points of the cached polygon.
RECURSIVE between_from(_, _, _, _)
between_from(collider, other, s, k) ==
    IF \/ s.panicked # "no"
       \/ k > Len(collider.particle_handles)
       \/ k > Len(collider.polygon.segments)
    THEN {s}
    ELSE IF ~has_point_inside(other.polygon, collider.polygon.segments[k].point)
    THEN between_from(collider, other, s, k + 1)
    ELSE UNION {IF ~m.some THEN between_from(collider, other, s, k + 1)
                ELSE UNION {between_from(collider, other, t, k + 1) :
                                t \in resolve_vertex(collider, other, s, k, m.value)} :
                    m \in closest_segment_within_bounding_box(
                            other.polygon, collider.polygon.segments[k].point,
                            collider.polygon.bounding_box)}

\* PolygonCollider::resolve_collisions_between_polygons.
resolve_collisions_between_polygons(collider, other, s) ==
    between_from(collider, other, s, 1)

\* PolygonCollider::resolve_collisions_with_polygon: one way, then the other.
resolve_collisions_with_polygon(self, other, s) ==
    UNION {resolve_collisions_between_polygons(other, self, t) :
                t \in resolve_collisions_between_polygons(self, other, s)}

\* PolygonCollider::new(particle_handles).
PolygonColliderNew(particle_handles) ==
    [particle_handles |-> particle_handles,
     restitution |-> DEFAULT_RESTITUTION,
     polygon |-> polygon_empty]

\* PolygonCollider::update: the polygon of the positions of the particles
\* the handles still name.
collider_update(collider, particles) ==
    LET live == SelectSeq(collider.particle_handles,
                          LAMBDA handle : set_get(particles, handle).some)
    IN  [collider EXCEPT
            !.polygon = polygon_update(
                Collect([i \in 1..Len(live) |-> set_get(particles, live[i]).value.position]))]

\* The particles of a ring added to a set one after the other, and the
\* handles add_particle returned for them.
RECURSIVE AddRing(_, _, _, _)
AddRing(set, handles, ring, masses) ==
    IF ring = <<>> THEN [set |-> set, handles |-> handles]
    ELSE AddRing(set_insert(set, ParticleNew(Head(ring), Head(masses))).set,
                 Append(handles, set_insert(set, ParticleNew(Head(ring), Head(masses))).handle),
                 Tail(ring), Tail(masses))

At(x, y) == <<x * SCALE, y * SCALE>>

\* Where the first vertex of collider A is put.
PenetratingPoints == {At(3, 4), At(4, 3), At(4, 4), At(5, 4)}

\* The rings of collider A: a triangle and a quadrilateral on the vertex p.
RingsOfA(p) == {<<p, At(9, 3), At(9, 6)>>, <<p, At(9, 3), At(9, 6), At(8, 7)>>}

\* The rings of collider B: a square in both senses and two triangles.
RingsOfB ==
    {<<At(2, 2), At(2, 6), At(6, 6), At(6, 2)>>,
     <<At(2, 2), At(6, 2), At(6, 6), At(2, 6)>>,
     <<At(2, 2), At(2, 8), At(8, 2)>>,
     <<At(2, 2), At(2, 6), At(7, 4)>>}

\* Two colliders over one particle set: the particles of A are added first,
\* then those of B; no polygon is cached yet. fresh says that the cached
\* polygons are those of the positions the particles have now.
CollisionOf(ringA, ringB, massP, massRest) ==
    LET a == AddRing([next_id |-> 0, objects |-> <<>>], <<>>, ringA,
                     <<massP>> \o [i \in 1..(Len(ringA) - 1) |-> massRest])
        built(b) ==
            [particles |-> b.set,
             colliderA |-> PolygonColliderNew(a.handles),
             colliderB |-> PolygonColliderNew(b.handles),
             updates |-> 0,
             resolves |-> 0,
             resolved |-> <<>>,
             fresh |-> FALSE,
             panicked |-> "no"]
    IN  built(AddRing(a.set, <<>>, ringB, [i \in 1..Len(ringB) |-> massRest]))

InitCollide ==
    /\ NoSimulator
    /\ lone = <<>>
    /\ neurons = <<>>
    /\ engine = <<>>
    /\ \E p \in PenetratingPoints, ringB \in RingsOfB,
          massP \in ParticleMasses, massRest \in ParticleMasses :
        \E ringA \in RingsOfA(p) :
            collision = CollisionOf(ringA, ringB, massP, massRest)

\* PolygonCollider::update of both colliders.
ColliderUpdate ==
    /\ collision.panicked = "no"
    /\ collision.updates < MaxColliderUpdates
    /\ collision' = [collision EXCEPT
            !.colliderA = collider_update(@, collision.particles),
            !.colliderB = collider_update(@, collision.particles),
            !.fresh = TRUE,
            !.updates = @ + 1]
    /\ UNCHANGED <<simVars, closer, partVars, lone, neurons, engine>>

\* Collider::resolve_collisions of collider A with collider B, for polygons
\* updated since the particles last moved and bounding boxes that intersect;
\* resolved is the history of this call.
Resolve ==
    /\ collision.panicked = "no"
    /\ collision.resolves < MaxResolves
    /\ collision.fresh
    /\ intersects(collision.colliderA.polygon.bounding_box,
                  collision.colliderB.polygon.bounding_box)
    /\ \E t \in resolve_collisions_with_polygon(
                    collision.colliderA, collision.colliderB,
                    [particles |-> collision.particles, resolved |-> <<>>,
                     panicked |-> "no"]) :
        collision' = [collision EXCEPT
            !.particles = t.particles,
            !.resolved = t.resolved,
            !.panicked = t.panicked,
            !.fresh = FALSE,
            !.resolves = @ + 1]
    /\ UNCHANGED <<simVars, closer, partVars, lone, neurons, engine>>

NextCollide == ColliderUpdate \/ Resolve

SpecCollide == InitCollide /\ [][NextCollide]_vars

\* The position of the particle of a handle in a particle set.
PositionOf(particles, handle) == set_get(particles, handle).value.position

\* One resolution moved nothing but the position of its penetrating particle.
OnlyThePointMoved(r) ==
    /\ Keys(r.after.objects) = Keys(r.before.objects)
    /\ \A handle \in Keys(r.before.objects) :
        IF handle = r.c.particle_handle
        THEN set_get(r.after, handle).value =
                [set_get(r.before, handle).value EXCEPT
                    !.position = PositionOf(r.after, handle)]
        ELSE set_get(r.after, handle) = set_get(r.before, handle)

\* What one resolution did to the position of its penetrating particle.
Displaced(r) ==
    Sub2(PositionOf(r.after, r.c.particle_handle),
         PositionOf(r.before, r.c.particle_handle))

\* The length of the displacement of one resolution is the given share of
\* the depth, to the rounding of the fixed point (two units of it).
DisplacedBy(r, share) ==
    LET squared(d) == d[1] * d[1] + d[2] * d[2]
        low == IF share > 2 THEN share - 2 ELSE 0
    IN  /\ low * low <= squared(Displaced(r))
        /\ squared(Displaced(r)) <= (share + 2) * (share + 2)

\* C24: resolving a point-in-polygon collision changes only the position of
\* the penetrating particle, by depth * inv_mass_point / (inv_mass_point +
\* inv_mass_seg1 + inv_mass_seg2) along a direction perpendicular to the
\* segment: the displacement has a zero dot product with
\* segment_point2 - segment_point1.
C24_PerpendicularDisplacement ==
    collision # <<>> =>
        \A k \in 1..Len(collision.resolved) :
            LET r == collision.resolved[k]
            IN  /\ OnlyThePointMoved(r)
                /\ DisplacedBy(r, Abs(particle_depth_of(r.before, r.c)))
                /\ Dot2(Displaced(r), Sub2(r.c.segment_point2, r.c.segment_point1)) = 0

\* What the code does: only the penetrating particle moves, by that share of
\* the depth, along the unit vector of the segment with its x negated.
C24_DisplacedAlongNegatedAxis ==
    collision # <<>> =>
        \A k \in 1..Len(collision.resolved) :
            LET r == collision.resolved[k]
            IN  /\ OnlyThePointMoved(r)
                /\ DisplacedBy(r, Abs(particle_depth_of(r.before, r.c)))
                /\ Displaced(r) =
                        Scale2(resolver_normal(r.c.segment_point1, r.c.segment_point2),
                               particle_depth_of(r.before, r.c))

\* A resolution against an axis-aligned segment moved its particle along the
\* segment.
C24_MovedAlongTheSegment ==
    /\ collision # <<>>
    /\ \E k \in 1..Len(collision.resolved) :
        LET r == collision.resolved[k]
        IN  /\ r.c.segment_point1[1] = r.c.segment_point2[1]
            /\ Displaced(r)[1] = 0
            /\ Displaced(r)[2] # 0

\* C28: the two segment handles given to the resolver are the handles of the
\* penetrated collider at the two ring indices of the closest segment of its
\* polygon, the penetrating handle is the handle of the vertex, and no handle
\* lookup indexes past the end of a handle list.
C28_SegmentHandlesOfPenetrated ==
    collision # <<>> =>
        /\ collision.panicked = "no"
        /\ \A k \in 1..Len(collision.resolved) :
            LET r == collision.resolved[k]
            IN  /\ r.index1 < Len(r.other_handles)
                /\ r.index2 < Len(r.other_handles)
                /\ r.c.segment_handle1 = r.other_handles[r.index1 + 1]
                /\ r.c.segment_handle2 = r.other_handles[r.index2 + 1]
                /\ r.c.particle_handle = r.collider_handles[r.vertex]

\* What the code does: the segment handles are looked up in the handle list
\* of the collider whose vertex penetrates, at the ring indices of the other
\* polygon.
C28_SegmentHandlesOfPenetrating ==
    collision # <<>> =>
        \A k \in 1..Len(collision.resolved) :
            LET r == collision.resolved[k]
            IN  /\ r.c.segment_handle1 = r.collider_handles[r.index1 + 1]
                /\ r.c.segment_handle2 = r.collider_handles[r.index2 + 1]
                /\ r.c.particle_handle = r.collider_handles[r.vertex]

\* A lookup past the end of the shorter handle list panicked.
C28_IndexedPastTheEnd ==
    /\ collision # <<>>
    /\ collision.panicked = "index out of bounds"
    /\ Len(collision.colliderA.particle_handles)
            # Len(collision.colliderB.particle_handles)

\* C29: between two Simulator operations the object-to-cell map has, for every
\* cell of the arena, the cells born by division included, an entry from the
\* cell's physics object to the cell's id, and no cell id is held twice.
C29_ObjectCellComplete ==
    /\ \A i \in 1..Len(cells) :
        /\ cells[i].v.object_id \in DOMAIN object_cell
        /\ object_cell[cells[i].v.object_id] = cells[i].id
    /\ \A i, j \in 1..Len(cells) : cells[i].id = cells[j].id => i = j

\* C30: between two Simulator operations every cell of the arena has
\* stored_energy = sum of molecules * molecules_energy_conversion: the random
\* cell just created, the parent that just divided and its child.
C30_StoredEnergyOfMolecules ==
    \A i \in 1..Len(cells) :
        cells[i].v.stored_energy =
            ComponentMulSum(cells[i].v.molecules, cells[i].v.molecules_energy_conversion)

====
